---- MODULE Spec2Model ----
(***************************************************************************)
(* A model of the pipeline telemetry recorder (src/src/utils/telemetry.py). *)
(*                                                                         *)
(* PipelineTelemetry is one object shared by several threads.  Every       *)
(* `with self._lock:` block is entered only while the lock is free and     *)
(* holds it until its last statement; inside a block each source statement *)
(* is one step.  Code outside a block (the construction of an event in     *)
(* record(), every read of summary(), dump() and print_summary()) runs     *)
(* without the lock and interleaves freely with the other threads.         *)
(*                                                                         *)
(* time.monotonic() is the variable now, counted in ticks of 5 ms; texts   *)
(* whose content is never inspected (error messages, raw descriptions) are *)
(* represented by their length in characters.                              *)
(***************************************************************************)
EXTENDS Integers, Sequences, FiniteSets, TLC

(* ------------------------------ bounds -------------------------------- *)

\* Number of threads that call into the recorder.
NThreads == 2

\* Total number of calls (of any method) made in one behaviour.
MaxCalls == 2

\* Largest value the monotonic clock takes, in ticks.
MaxClock == 2

Threads == 1 .. NThreads

(* --------------------------- input domains ---------------------------- *)

\* Python's None: among strings, and among the numbers that stand for a text's
\* length or a clock value
None == "None"
Absent == -1

Stages == {"draft"}
Reasons == {None, "", "no_evidence"}
Confidences == {80}

\* record_llm_call's inputs: two models, prompts of 3 and 8 characters (0 and 2
\* estimated tokens), with and without a token count from the API.
LlmCallCases ==
    { [model |-> "flash", prompt_chars |-> 8, prompt_tokens |-> 0],
      [model |-> "pro", prompt_chars |-> 3, prompt_tokens |-> 5],
      [model |-> "flash", prompt_chars |-> 3, prompt_tokens |-> 1] }

\* record_pywhyllm_pair's inputs: every answer category, with and without an error,
\* with and without was_normalized, a description shorter and longer than 500.
PairCases ==
    { [answer |-> "A", error |-> Absent, was_normalized |-> FALSE, raw_description |-> 12],
      [answer |-> "B", error |-> Absent, was_normalized |-> FALSE, raw_description |-> 12],
      [answer |-> "C", error |-> Absent, was_normalized |-> TRUE, raw_description |-> 600],
      [answer |-> "", error |-> Absent, was_normalized |-> FALSE, raw_description |-> 0],
      [answer |-> "a", error |-> Absent, was_normalized |-> TRUE, raw_description |-> 12],
      [answer |-> "A", error |-> 4, was_normalized |-> FALSE, raw_description |-> 12],
      [answer |-> "", error |-> 4, was_normalized |-> TRUE, raw_description |-> 0],
      [answer |-> "B", error |-> 0, was_normalized |-> FALSE, raw_description |-> 12] }

\* the error text of a retry or an error, as a length: longer than both cuts
ErrorTexts == {600}

(* ------------------------------- state -------------------------------- *)

VARIABLES
    now,                        \* time.monotonic()
    lock,                       \* self._lock: 0 when free, else the holder
    pc,                         \* per thread: the statement it is at
    args,                       \* per thread: the arguments and locals of its call
    ev,                         \* per thread: the TelemetryEvent record() built
    snap,                       \* per thread: the dict summary() is building
    budget,                     \* the number of calls the behaviour makes at most
    ncalls,                     \* calls begun in this behaviour
    made,                       \* per method: calls begun since the last reset()
    clean,                      \* per thread: no mutation since its summary() began
    last_summary,               \* the last summary() returned with no mutation since
    artifact,                   \* the JSON document dump() wrote last
    run_start, run_start_wall, events, stage_starts, stage_durations,
    llm, pywhyllm, verification, edge_dropout,
    variable_count_raw, variable_count_canonical, variable_count_added,
    evidence_cache_size, var_id_resolve_misses,
    judge,                      \* the VerificationJudge: self.llm, self.judge_model
    oracle,                     \* the requests the LLM client has been sent
    given,                      \* per thread: the objects its caller passed the judge
    returned,                   \* per thread: what its last judge call handed back
    permits,                    \* the threads that hold a permit of the LLM semaphore
    config,                     \* the VerificationConfig the run was started with
    loop,                       \* per edge: the state of its verification loop
    pipeline,                   \* "running", or "aborted" once the pipeline gave up
    raw,                        \* the oracle text _normalize_answer() is given
    result,                     \* what _normalize_answer() returned
    instance,                   \* the module's _instance: None or a PipelineTelemetry
    instance_lock,              \* the module's _instance_lock: 0 when free, else the holder
    instances,                  \* per PipelineTelemetry constructed: the events it holds
    handle,                     \* per thread: what get_telemetry() returned to it
    through                     \* the events recorded through any handle

telVars == <<run_start, run_start_wall, events, stage_starts, stage_durations,
             llm, pywhyllm, verification, edge_dropout,
             variable_count_raw, variable_count_canonical, variable_count_added,
             evidence_cache_size, var_id_resolve_misses>>

ghostVars == <<budget, made, clean, last_summary>>

judgeVars == <<judge, oracle, given, returned>>

loopVars == <<config, loop, pipeline>>

moduleVars == <<raw, result, instance, instance_lock, instances, handle, through>>

vars == <<now, lock, pc, args, ev, snap, ncalls, artifact, ghostVars, telVars, judgeVars,
          permits, loopVars, moduleVars>>

(* ------------------------------ helpers ------------------------------- *)

Min(a, b) == IF a < b THEN a ELSE b
Max(a, b) == IF a < b THEN b ELSE a

RECURSIVE SumSeq(_)
SumSeq(s) == IF s = <<>> THEN 0 ELSE Head(s) + SumSeq(Tail(s))

\* d[k] = v on a dict held as a function
DictSet(d, k, v) == [x \in DOMAIN d \cup {k} |-> IF x = k THEN v ELSE d[x]]

\* d.get(k, default)
DictGet(d, k, default) == IF k \in DOMAIN d THEN d[k] ELSE default

EmptyDict == [x \in {} |-> 0]

\* s[:] : the whole list, whatever n
Unsliced(s, n) == s

\* s[:n]
Slice(s, n) == SubSeq(s, 1, Min(Len(s), n))

\* text[:n] of a text held as its length
Truncate(len, n) == Min(len, n)

\* round(x, 2) of a time held in ticks of 5 ms: to the nearest 10 ms
Round2(t) == 2 * ((t + 1) \div 2)

\* round(x, 3) of a time held in ticks of 5 ms: every tick is a whole number of ms
Round3(t) == t

(* ------------------------- the dataclasses ---------------------------- *)

TelemetryEvent(stage, event, timestamp, data) ==
    [stage |-> stage, event |-> event, timestamp |-> timestamp, wall_clock |-> timestamp,
     data |-> data]

LLMCallCounter ==
    [total_calls |-> 0, total_prompt_chars |-> 0, total_completion_chars |-> 0,
     total_prompt_tokens_est |-> 0, total_retries |-> 0, total_errors |-> 0,
     total_quota_errors |-> 0, total_fallbacks |-> 0, calls_by_model |-> EmptyDict,
     latency_samples_ms |-> <<>>]

PyWhyLLMCounter ==
    [total_pairs |-> 0, pairs_a |-> 0, pairs_b |-> 0, pairs_c |-> 0, pairs_normalized |-> 0,
     pairs_parse_fail |-> 0, pairs_exception |-> 0, raw_outputs |-> <<>>,
     per_call_latency_ms |-> <<>>]

VerificationCounter ==
    [total_edges_submitted |-> 0, total_judge_calls |-> 0, total_adversarial_calls |-> 0,
     grounded_count |-> 0, rejected_count |-> 0, no_evidence_count |-> 0,
     exhausted_iterations_count |-> 0, duplicate_query_breaks |-> 0,
     adversarial_rejections |-> 0, rejection_reasons |-> <<>>, verdict_confidences |-> <<>>]

EdgeDropoutTracker ==
    [pywhyllm_proposed |-> 0, langextract_proposed |-> 0, total_after_dedup |-> 0,
     after_mechanism_synthesis |-> 0, submitted_to_verification |-> 0,
     grounded_by_verification |-> 0, rejected_by_verification |-> 0,
     node_not_found_errors |-> 0, cycle_detected_errors |-> 0, other_add_errors |-> 0,
     final_edges_in_graph |-> 0]

(* --------------------------- thread frames ---------------------------- *)

NoArgs == [m |-> "none"]
NoEvent == [event |-> "none"]
NoSnap == [k |-> "none"]
NoSummary == [k |-> "none"]

\* The methods whose calls are counted: made[m] is the number of calls of m begun
\* since reset() was last called, made["reset"] the number of calls of reset().
Counted ==
    {"reset", "record", "record_llm_call", "record_pywhyllm_pair",
     "record_verification_final", "evaluate", "evaluate_adversarial"}

\* A thread may begin a call: it is in no call and the run's budget is not spent.
CanCall(t) == pc[t] = "idle" /\ ncalls < budget

\* `with self._lock:` can be entered
LockFree == lock = 0

Call(t, method) ==
    /\ ncalls' = ncalls + 1
    /\ made' = IF method \in Counted THEN [made EXCEPT ![method] = @ + 1] ELSE made
    /\ UNCHANGED budget

\* A statement that changes the recorder's state ends every "no mutation since".
Touch ==
    /\ clean' = [u \in Threads |-> FALSE]
    /\ last_summary' = NoSummary

Goto(t, label) == pc' = [pc EXCEPT ![t] = label]

Return(t) ==
    /\ pc' = [pc EXCEPT ![t] = "idle"]
    /\ args' = [args EXCEPT ![t] = NoArgs]

\* VerificationJudge(llm_client): the judge as __init__ leaves it
VerificationJudge == [llm |-> "llm_client", judge_model |-> "gemini-2.5-pro"]

NoVerdict == [outcome |-> "none"]

\* VerificationConfig(): the defaults of its fields. A confidence is kept in
\* hundredths, so the threshold 0.4 reads 40.
VerificationConfig ==
    [max_judge_iterations |-> 2, grounding_confidence_threshold |-> 40,
     enable_adversarial_pass |-> FALSE, judge_model |-> "gemini-2.5-flash",
     llm_semaphore_limit |-> 12, max_retries |-> 5, retrieval_top_k |-> 5]

\* The loop of an edge that has not been submitted.
NoOutcome == [grounded |-> FALSE, rejection_reason |-> "unset", iterations_used |-> -1]

NoLoop ==
    [state |-> "Unsubmitted", iteration |-> 0, last_query |-> None, evidence |-> <<>>,
     ever_retrieved |-> FALSE, queries |-> <<>>, verdicts |-> <<>>,
     judge_calls |-> 0, adversarial_calls |-> 0, challenged |-> FALSE,
     outcome |-> NoOutcome, reported |-> FALSE]

(* --------------------------- __init__ --------------------------------- *)

\* The recorder as PipelineTelemetry() leaves it, before a run of at most b calls.
InitTelemetry(b, c) ==
    /\ budget = b
    /\ now = 0
    /\ lock = 0
    /\ pc = [t \in Threads |-> "idle"]
    /\ args = [t \in Threads |-> NoArgs]
    /\ ev = [t \in Threads |-> NoEvent]
    /\ snap = [t \in Threads |-> NoSnap]
    /\ ncalls = 0
    /\ made = [m \in Counted |-> 0]
    /\ clean = [t \in Threads |-> FALSE]
    /\ last_summary = NoSummary
    /\ artifact = NoSummary
    /\ run_start = 0
    /\ run_start_wall = 0
    /\ events = <<>>
    /\ stage_starts = EmptyDict
    /\ stage_durations = EmptyDict
    /\ llm = LLMCallCounter
    /\ pywhyllm = PyWhyLLMCounter
    /\ verification = VerificationCounter
    /\ edge_dropout = EdgeDropoutTracker
    /\ variable_count_raw = 0
    /\ variable_count_canonical = 0
    /\ variable_count_added = 0
    /\ evidence_cache_size = 0
    /\ var_id_resolve_misses = <<>>
    /\ judge = VerificationJudge
    /\ oracle = <<>>
    /\ given = [t \in Threads |-> NoArgs]
    /\ returned = [t \in Threads |-> NoVerdict]
    /\ permits = {}
    /\ config = c
    /\ loop = [t \in Threads |-> NoLoop]
    /\ pipeline = "running"

\* _instance before the first get_telemetry(): None. The objects constructed are
\* numbered from 1.
NoInstance == 0

\* The module as imported: _instance is None and its lock is free. The telemetry
\* object whose fields the variables above are is the one the program works with.
InitConfigured(b, c) ==
    /\ InitTelemetry(b, c)
    /\ raw = <<>>
    /\ result = None
    /\ instance = NoInstance
    /\ instance_lock = 0
    /\ instances = <<>>
    /\ handle = [t \in Threads |-> NoInstance]
    /\ through = 0

\* A run under the default configuration.
InitWith(b) == InitConfigured(b, VerificationConfig)

Init == InitWith(MaxCalls)

\* The clock advances.
Tick ==
    /\ now < MaxClock
    /\ now' = now + 1
    /\ UNCHANGED <<lock, pc, args, ev, snap, ncalls, artifact, judgeVars, permits, loopVars, moduleVars, ghostVars, telVars>>


(* ------------------------ lock and call frames ------------------------ *)

\* Statement i of the n statements of method's `with self._lock:` block, run by t:
\* the first statement enters the block (and begins the call), the last one leaves
\* it and goes on to label after; nxt is the call frame the statement leaves.
Locked(t, method, i, n, after, nxt) ==
    /\ IF i = 1
       THEN CanCall(t) /\ LockFree /\ Call(t, method)
       ELSE pc[t] = method /\ args[t].i = i /\ lock = t
            /\ UNCHANGED <<budget, ncalls, made>>
    /\ lock' = IF i = n THEN 0 ELSE t
    /\ pc' = [pc EXCEPT ![t] = IF i = n THEN after ELSE method]
    /\ args' = [args EXCEPT ![t] = IF i = n /\ after = "idle" THEN NoArgs ELSE nxt]
    /\ Touch

\* The frame of a call that is at statement i of its block.
At(a, i) == [a EXCEPT !.i = i]

(* ------------------------------ reset --------------------------------- *)

ResetStatements == 14

\* reset() without its 4th assignment: self.stage_starts is not cleared
ResetStatementKeepsStageStarts(i) ==
    /\ run_start' = IF i = 1 THEN now ELSE run_start
    /\ run_start_wall' = IF i = 2 THEN now ELSE run_start_wall
    /\ events' = IF i = 3 THEN <<>> ELSE events
    /\ stage_starts' = stage_starts
    /\ stage_durations' = IF i = 5 THEN EmptyDict ELSE stage_durations
    /\ llm' = IF i = 6 THEN LLMCallCounter ELSE llm
    /\ pywhyllm' = IF i = 7 THEN PyWhyLLMCounter ELSE pywhyllm
    /\ verification' = IF i = 8 THEN VerificationCounter ELSE verification
    /\ edge_dropout' = IF i = 9 THEN EdgeDropoutTracker ELSE edge_dropout
    /\ variable_count_raw' = IF i = 10 THEN 0 ELSE variable_count_raw
    /\ variable_count_canonical' = IF i = 11 THEN 0 ELSE variable_count_canonical
    /\ variable_count_added' = IF i = 12 THEN 0 ELSE variable_count_added
    /\ evidence_cache_size' = IF i = 13 THEN 0 ELSE evidence_cache_size
    /\ var_id_resolve_misses' = IF i = 14 THEN <<>> ELSE var_id_resolve_misses

\* Statement i of reset()'s block (lines 129-142).
ResetStatement(i) ==
    /\ run_start' = IF i = 1 THEN now ELSE run_start
    /\ run_start_wall' = IF i = 2 THEN now ELSE run_start_wall
    /\ events' = IF i = 3 THEN <<>> ELSE events
    /\ stage_starts' = IF i = 4 THEN EmptyDict ELSE stage_starts
    /\ stage_durations' = IF i = 5 THEN EmptyDict ELSE stage_durations
    /\ llm' = IF i = 6 THEN LLMCallCounter ELSE llm
    /\ pywhyllm' = IF i = 7 THEN PyWhyLLMCounter ELSE pywhyllm
    /\ verification' = IF i = 8 THEN VerificationCounter ELSE verification
    /\ edge_dropout' = IF i = 9 THEN EdgeDropoutTracker ELSE edge_dropout
    /\ variable_count_raw' = IF i = 10 THEN 0 ELSE variable_count_raw
    /\ variable_count_canonical' = IF i = 11 THEN 0 ELSE variable_count_canonical
    /\ variable_count_added' = IF i = 12 THEN 0 ELSE variable_count_added
    /\ evidence_cache_size' = IF i = 13 THEN 0 ELSE evidence_cache_size
    /\ var_id_resolve_misses' = IF i = 14 THEN <<>> ELSE var_id_resolve_misses

\* An iterator another thread holds over a dict or list that reset() replaces goes on
\* over the replaced object, which nothing changes any more.
Detach(a, i) ==
    IF a.m = "summary" /\ i = 5 /\ a.it.live
    THEN [a EXCEPT !.it = [live |-> FALSE, obj |-> stage_durations]]
    ELSE IF a.m = "dump_events" /\ i = 3 /\ a.it.live
    THEN [a EXCEPT !.it = [live |-> FALSE, obj |-> events]]
    ELSE a

reset(t) ==
    \/ /\ CanCall(t) /\ LockFree
       /\ ncalls' = ncalls + 1
       /\ made' = [m \in Counted |-> IF m = "reset" THEN made[m] + 1 ELSE 0]
       /\ lock' = t
       /\ Goto(t, "reset")
       /\ args' = [args EXCEPT ![t] = [m |-> "reset", i |-> 2]]
       /\ ResetStatement(1)
       /\ Touch
       /\ UNCHANGED <<now, ev, snap, artifact, judgeVars, permits, loopVars, moduleVars, budget>>
    \/ /\ pc[t] = "reset" /\ lock = t
       /\ LET i == args[t].i
          IN  /\ ResetStatement(i)
              /\ lock' = IF i = ResetStatements THEN 0 ELSE t
              /\ pc' = [pc EXCEPT ![t] = IF i = ResetStatements THEN "idle" ELSE "reset"]
              /\ args' = [u \in Threads |->
                            IF u # t THEN Detach(args[u], i)
                            ELSE IF i = ResetStatements THEN NoArgs
                            ELSE [args[t] EXCEPT !.i = i + 1]]
       /\ Touch
       /\ UNCHANGED <<now, ev, snap, artifact, judgeVars, permits, loopVars, moduleVars, budget, ncalls, made>>

(* ------------------------------ record -------------------------------- *)

RecordArgs(stage, event, data) ==
    [m |-> "record", stage |-> stage, event |-> event, data |-> data]

\* self.events.insert(0, ev): the newest event first
PrependEvent(log, e) == <<e>> \o log

\* self.events.append(ev)
AppendEvent(log, e) == Append(log, e)

NoData == [k |-> "empty"]

record(t) ==
    \* a direct call: the event is built from the clock, outside the lock
    \/ /\ CanCall(t)
       /\ Call(t, "record")
       /\ \E stage \in Stages :
            ev' = [ev EXCEPT ![t] = TelemetryEvent(stage, "custom", now, [key |-> "value"])]
       /\ Goto(t, "record_append")
       /\ UNCHANGED <<now, lock, args, snap, artifact, judgeVars, permits, loopVars, moduleVars, clean, last_summary, telVars>>
    \* the call a typed method or stage_start/stage_end makes after its block
    \/ /\ pc[t] = "record"
       /\ made' = [made EXCEPT !["record"] = @ + 1]
       /\ UNCHANGED budget
       /\ ev' = [ev EXCEPT ![t] =
                   TelemetryEvent(args[t].stage, args[t].event, now, args[t].data)]
       /\ Goto(t, "record_append")
       /\ UNCHANGED <<now, lock, args, snap, artifact, judgeVars, permits, loopVars, moduleVars, ncalls, clean, last_summary, telVars>>
    \* with self._lock: self.events.append(ev)
    \/ /\ pc[t] = "record_append" /\ LockFree
       /\ events' = AppendEvent(events, ev[t])
       /\ ev' = [ev EXCEPT ![t] = NoEvent]
       /\ Return(t)
       /\ Touch
       /\ UNCHANGED <<now, lock, snap, artifact, judgeVars, permits, loopVars, moduleVars, budget, ncalls, made,
                      run_start, run_start_wall, stage_starts, stage_durations,
                      llm, pywhyllm, verification, edge_dropout,
                      variable_count_raw, variable_count_canonical, variable_count_added,
                      evidence_cache_size, var_id_resolve_misses>>

(* --------------------------- stage timing ----------------------------- *)

\* A statement of a block changes the named parts of the recorder and nothing else.
OnlyChanges(changed) ==
    /\ IF "events" \in changed THEN TRUE ELSE UNCHANGED events
    /\ IF "stage_starts" \in changed THEN TRUE ELSE UNCHANGED stage_starts
    /\ IF "stage_durations" \in changed THEN TRUE ELSE UNCHANGED stage_durations
    /\ IF "llm" \in changed THEN TRUE ELSE UNCHANGED llm
    /\ IF "pywhyllm" \in changed THEN TRUE ELSE UNCHANGED pywhyllm
    /\ IF "verification" \in changed THEN TRUE ELSE UNCHANGED verification
    /\ IF "var_id_resolve_misses" \in changed THEN TRUE ELSE UNCHANGED var_id_resolve_misses
    /\ UNCHANGED <<run_start, run_start_wall, edge_dropout, variable_count_raw,
                   variable_count_canonical, variable_count_added, evidence_cache_size>>
    /\ UNCHANGED <<now, ev, snap, artifact, judgeVars, permits, loopVars, moduleVars>>

stage_start(t) ==
    \E stage \in Stages :
        /\ Locked(t, "stage_start", 1, 1, "record", RecordArgs(stage, "stage_start", NoData))
        /\ stage_starts' = DictSet(stage_starts, stage, now)
        /\ OnlyChanges({"stage_starts"})

\* elapsed = time.monotonic() - (t0 or 0.0): a stage never started counts from 0
ElapsedFromZero(t0, clock) == IF t0 # Absent THEN clock - t0 ELSE clock

\* elapsed = (time.monotonic() - t0) if t0 else 0.0
Elapsed(t0, clock) == IF t0 # Absent /\ t0 # 0 THEN clock - t0 ELSE 0

stage_end(t) ==
    \E stage \in Stages :
        LET elapsed == Elapsed(DictGet(stage_starts, stage, Absent), now)
        IN  /\ Locked(t, "stage_end", 1, 1, "record",
                      RecordArgs(stage, "stage_end", [elapsed_seconds |-> Round3(elapsed)]))
            /\ stage_durations' = DictSet(stage_durations, stage, elapsed)
            /\ OnlyChanges({"stage_durations"})

(* --------------------------- LLM call tracking ------------------------ *)

\* record_llm_call with its first statement counting the calls of the model only:
\* total_calls = calls_by_model.get(model, 0) + 1
LlmCallStatementPerModel(i, l, a) ==
    CASE i = 1 -> [l EXCEPT !.total_calls = DictGet(l.calls_by_model, a.model, 0) + 1]
      [] i = 2 -> [l EXCEPT !.total_prompt_chars = @ + a.prompt_chars]
      [] i = 3 -> [l EXCEPT !.total_completion_chars = @ + a.completion_chars]
      [] i = 4 -> [l EXCEPT !.total_prompt_tokens_est = @ + (a.prompt_chars \div 4)]
      [] i = 5 -> [l EXCEPT !.latency_samples_ms = Append(@, a.latency_ms)]
      [] i = 6 -> [l EXCEPT !.calls_by_model =
                      DictSet(@, a.model, DictGet(@, a.model, 0) + 1)]
      [] i = 7 -> IF a.prompt_tokens # 0
                  THEN [l EXCEPT !.total_prompt_tokens_est = Max(@, a.prompt_tokens)]
                  ELSE l

\* record_llm_call taking the API's token count for the estimate whenever there is
\* one: total_prompt_tokens_est = prompt_tokens
LlmCallStatementTakesApiCount(i, l, a) ==
    CASE i = 1 -> [l EXCEPT !.total_calls = @ + 1]
      [] i = 2 -> [l EXCEPT !.total_prompt_chars = @ + a.prompt_chars]
      [] i = 3 -> [l EXCEPT !.total_completion_chars = @ + a.completion_chars]
      [] i = 4 -> [l EXCEPT !.total_prompt_tokens_est = @ + (a.prompt_chars \div 4)]
      [] i = 5 -> [l EXCEPT !.latency_samples_ms = Append(@, a.latency_ms)]
      [] i = 6 -> [l EXCEPT !.calls_by_model =
                      DictSet(@, a.model, DictGet(@, a.model, 0) + 1)]
      [] i = 7 -> IF a.prompt_tokens # 0
                  THEN [l EXCEPT !.total_prompt_tokens_est = a.prompt_tokens]
                  ELSE l

\* Statement i of record_llm_call's block (lines 190-200) on the counter l.
LlmCallStatement(i, l, a) ==
    CASE i = 1 -> [l EXCEPT !.total_calls = @ + 1]
      [] i = 2 -> [l EXCEPT !.total_prompt_chars = @ + a.prompt_chars]
      [] i = 3 -> [l EXCEPT !.total_completion_chars = @ + a.completion_chars]
      [] i = 4 -> [l EXCEPT !.total_prompt_tokens_est = @ + (a.prompt_chars \div 4)]
      [] i = 5 -> [l EXCEPT !.latency_samples_ms = Append(@, a.latency_ms)]
      [] i = 6 -> [l EXCEPT !.calls_by_model =
                      DictSet(@, a.model, DictGet(@, a.model, 0) + 1)]
      [] i = 7 -> IF a.prompt_tokens # 0
                  THEN [l EXCEPT !.total_prompt_tokens_est = Max(@, a.prompt_tokens)]
                  ELSE l

record_llm_call(t) ==
    \/ \E c \in LlmCallCases :
         LET a == [m |-> "record_llm_call", i |-> 1, model |-> c.model,
                   prompt_chars |-> c.prompt_chars, completion_chars |-> 2,
                   latency_ms |-> 250, prompt_tokens |-> c.prompt_tokens]
         IN  /\ Locked(t, "record_llm_call", 1, 7, "idle", At(a, 2))
             /\ llm' = LlmCallStatement(1, llm, a)
             /\ OnlyChanges({"llm"})
    \/ \E i \in 2 .. 7 :
         /\ Locked(t, "record_llm_call", i, 7, "idle", At(args[t], i + 1))
         /\ llm' = LlmCallStatement(i, llm, args[t])
         /\ OnlyChanges({"llm"})

record_llm_retry(t) ==
    \E err \in ErrorTexts :
        /\ Locked(t, "record_llm_retry", 1, 1, "record",
                  RecordArgs("llm", "retry",
                             [model |-> "flash", attempt |-> 1,
                              error |-> Truncate(err, 300)]))
        /\ llm' = [llm EXCEPT !.total_retries = @ + 1]
        /\ OnlyChanges({"llm"})

\* Statement i of record_llm_error's block (lines 211-213).
LlmErrorStatement(i, l, a) ==
    CASE i = 1 -> [l EXCEPT !.total_errors = @ + 1]
      [] i = 2 -> IF a.is_quota THEN [l EXCEPT !.total_quota_errors = @ + 1] ELSE l

record_llm_error(t) ==
    \/ \E err \in ErrorTexts, is_quota \in BOOLEAN :
         LET a == [m |-> "record_llm_error", i |-> 1, model |-> "flash", error |-> err,
                   is_quota |-> is_quota]
         IN  /\ Locked(t, "record_llm_error", 1, 2, "record", At(a, 2))
             /\ llm' = LlmErrorStatement(1, llm, a)
             /\ OnlyChanges({"llm"})
    \/ LET a == args[t]
       IN  /\ Locked(t, "record_llm_error", 2, 2, "record",
                     RecordArgs("llm", "error",
                                [model |-> a.model, error |-> Truncate(a.error, 500),
                                 is_quota |-> a.is_quota]))
           /\ llm' = LlmErrorStatement(2, llm, a)
           /\ OnlyChanges({"llm"})

record_llm_fallback(t) ==
    /\ Locked(t, "record_llm_fallback", 1, 1, "record",
              RecordArgs("llm", "native_to_prompt_fallback", [model |-> "flash"]))
    /\ llm' = [llm EXCEPT !.total_fallbacks = @ + 1]
    /\ OnlyChanges({"llm"})

(* ----------------------- PyWhyLLM pairwise tracking ------------------- *)

\* limit to 200 samples
RawOutputCap == 200

\* `if error:` / `if raw_description` on a text held as its length
Truthy(text) == text # Absent /\ text # 0

RawOutput(a) ==
    [var1 |-> "x", var2 |-> "y", answer_parsed |-> a.answer,
     raw_description |-> IF Truthy(a.raw_description)
                         THEN Truncate(a.raw_description, 500) ELSE 0,
     latency_ms |-> a.latency_ms, error |-> a.error]

\* The chain with the answer tested before the error.
AnswerBeforeError(a) ==
    IF a.answer = "A" THEN "pairs_a"
    ELSE IF a.answer = "B" THEN "pairs_b"
    ELSE IF a.answer = "C" THEN "pairs_c"
    ELSE IF a.error # Absent /\ a.error # 0 THEN "pairs_exception"
    ELSE "pairs_parse_fail"

\* The if / elif chain of lines 239-248: the category counter a call adds to.
PairCategory(a) ==
    IF Truthy(a.error) THEN "pairs_exception"
    ELSE IF a.answer = "A" THEN "pairs_a"
    ELSE IF a.answer = "B" THEN "pairs_b"
    ELSE IF a.answer = "C" THEN "pairs_c"
    ELSE "pairs_parse_fail"

\* record_pywhyllm_pair with the answers that are none of A, B, C left uncounted:
\* the chain ends in `elif answer == "C"` with no else
PairStatementNoElse(i, p, a) ==
    CASE i = 1 -> [p EXCEPT !.total_pairs = @ + 1]
      [] i = 2 -> [p EXCEPT !.per_call_latency_ms = Append(@, a.latency_ms)]
      [] i = 3 -> IF PairCategory(a) = "pairs_parse_fail" THEN p
                  ELSE [p EXCEPT ![PairCategory(a)] = @ + 1]
      [] i = 4 -> IF a.was_normalized THEN [p EXCEPT !.pairs_normalized = @ + 1] ELSE p
      [] i = 5 -> IF Len(p.raw_outputs) < RawOutputCap
                  THEN [p EXCEPT !.raw_outputs = Append(@, RawOutput(a))]
                  ELSE p

\* record_pywhyllm_pair keeping the latest 200 samples: at the cap the oldest sample
\* is dropped and the new one appended
PairStatementKeepsLatest(i, p, a) ==
    CASE i = 1 -> [p EXCEPT !.total_pairs = @ + 1]
      [] i = 2 -> [p EXCEPT !.per_call_latency_ms = Append(@, a.latency_ms)]
      [] i = 3 -> [p EXCEPT ![PairCategory(a)] = @ + 1]
      [] i = 4 -> IF a.was_normalized THEN [p EXCEPT !.pairs_normalized = @ + 1] ELSE p
      [] i = 5 -> IF Len(p.raw_outputs) < RawOutputCap
                  THEN [p EXCEPT !.raw_outputs = Append(@, RawOutput(a))]
                  ELSE [p EXCEPT !.raw_outputs = Append(Tail(@), RawOutput(a))]

\* record_pywhyllm_pair counting a normalized answer only when it is A, B or C
PairStatementNormalizedIfParsed(i, p, a) ==
    CASE i = 1 -> [p EXCEPT !.total_pairs = @ + 1]
      [] i = 2 -> [p EXCEPT !.per_call_latency_ms = Append(@, a.latency_ms)]
      [] i = 3 -> [p EXCEPT ![PairCategory(a)] = @ + 1]
      [] i = 4 -> IF a.was_normalized /\ a.answer \in {"A", "B", "C"}
                  THEN [p EXCEPT !.pairs_normalized = @ + 1] ELSE p
      [] i = 5 -> IF Len(p.raw_outputs) < RawOutputCap
                  THEN [p EXCEPT !.raw_outputs = Append(@, RawOutput(a))]
                  ELSE p

\* Statement i of record_pywhyllm_pair's block (lines 237-260) on the counter p.
PairStatement(i, p, a) ==
    CASE i = 1 -> [p EXCEPT !.total_pairs = @ + 1]
      [] i = 2 -> [p EXCEPT !.per_call_latency_ms = Append(@, a.latency_ms)]
      [] i = 3 -> [p EXCEPT ![PairCategory(a)] = @ + 1]
      [] i = 4 -> IF a.was_normalized THEN [p EXCEPT !.pairs_normalized = @ + 1] ELSE p
      [] i = 5 -> IF Len(p.raw_outputs) < RawOutputCap
                  THEN [p EXCEPT !.raw_outputs = Append(@, RawOutput(a))]
                  ELSE p

record_pywhyllm_pair(t) ==
    \/ \E c \in PairCases :
         LET a == [m |-> "record_pywhyllm_pair", i |-> 1, answer |-> c.answer,
                   error |-> c.error, was_normalized |-> c.was_normalized,
                   raw_description |-> c.raw_description, latency_ms |-> 500]
         IN  /\ Locked(t, "record_pywhyllm_pair", 1, 5, "idle", At(a, 2))
             /\ pywhyllm' = PairStatement(1, pywhyllm, a)
             /\ OnlyChanges({"pywhyllm"})
    \/ \E i \in 2 .. 5 :
         /\ Locked(t, "record_pywhyllm_pair", i, 5, "idle", At(args[t], i + 1))
         /\ pywhyllm' = PairStatement(i, pywhyllm, args[t])
         /\ OnlyChanges({"pywhyllm"})

(* -------------------------- verification tracking --------------------- *)

\* Statement i of record_verification_verdict's block (lines 277-278).
VerdictStatement(i, v, a) ==
    CASE i = 1 -> [v EXCEPT !.total_judge_calls = @ + 1]
      [] i = 2 -> [v EXCEPT !.verdict_confidences = Append(@, a.confidence)]

record_verification_verdict(t) ==
    \/ \E is_grounded \in BOOLEAN, confidence \in Confidences :
         LET a == [m |-> "record_verification_verdict", i |-> 1,
                   is_grounded |-> is_grounded, confidence |-> confidence]
         IN  /\ Locked(t, "record_verification_verdict", 1, 2, "record", At(a, 2))
             /\ verification' = VerdictStatement(1, verification, a)
             /\ OnlyChanges({"verification"})
    \/ LET a == args[t]
       IN  /\ Locked(t, "record_verification_verdict", 2, 2, "record",
                     RecordArgs("verification", "judge_verdict",
                                [edge |-> "x->y", iteration |-> 1,
                                 is_grounded |-> a.is_grounded,
                                 confidence |-> a.confidence,
                                 support_type |-> "direct_causal",
                                 has_refinement |-> FALSE,
                                 evidence_chunk_count |-> 3,
                                 evidence_block_chars |-> 1500]))
           /\ verification' = VerdictStatement(2, verification, a)
           /\ OnlyChanges({"verification"})

\* rejection_reason or "unknown"
ReasonOrUnknown(reason) == IF reason = None \/ reason = "" THEN "unknown" ELSE reason

\* record_verification_final with `if grounded:` and no else: a grounded edge is
\* counted as rejected too
FinalStatementNoElse(i, v, a) ==
    CASE i = 1 -> IF a.grounded
                  THEN [v EXCEPT !.grounded_count = @ + 1, !.rejected_count = @ + 1]
                  ELSE [v EXCEPT !.rejected_count = @ + 1]
      [] i = 2 -> [v EXCEPT !.rejection_reasons =
                      Append(@, [edge |-> "x->y",
                                 reason |-> ReasonOrUnknown(a.rejection_reason),
                                 iterations |-> a.iterations_used])]

\* record_verification_final that leaves a cancelled edge out of its counts
FinalStatementSkipsCancelled(i, v, a) ==
    CASE i = 1 -> IF a.grounded
                  THEN [v EXCEPT !.grounded_count = @ + 1]
                  ELSE IF a.rejection_reason = "cancelled" THEN v
                  ELSE [v EXCEPT !.rejected_count = @ + 1]
      [] i = 2 -> [v EXCEPT !.rejection_reasons =
                      Append(@, [edge |-> "x->y",
                                 reason |-> ReasonOrUnknown(a.rejection_reason),
                                 iterations |-> a.iterations_used])]

\* Statement i of record_verification_final's block (lines 299-307).
FinalStatement(i, v, a) ==
    CASE i = 1 -> IF a.grounded
                  THEN [v EXCEPT !.grounded_count = @ + 1]
                  ELSE [v EXCEPT !.rejected_count = @ + 1]
      [] i = 2 -> [v EXCEPT !.rejection_reasons =
                      Append(@, [edge |-> "x->y",
                                 reason |-> ReasonOrUnknown(a.rejection_reason),
                                 iterations |-> a.iterations_used])]

record_verification_final(t) ==
    \/ \E grounded \in BOOLEAN, reason \in Reasons :
         LET a == [m |-> "record_verification_final", i |-> 1, grounded |-> grounded,
                   rejection_reason |-> reason, iterations_used |-> 1]
         IN  /\ Locked(t, "record_verification_final", 1, IF grounded THEN 1 ELSE 2,
                       "idle", At(a, 2))
             /\ verification' = FinalStatement(1, verification, a)
             /\ OnlyChanges({"verification"})
    \/ /\ Locked(t, "record_verification_final", 2, 2, "idle", NoArgs)
       /\ verification' = FinalStatement(2, verification, args[t])
       /\ OnlyChanges({"verification"})

record_var_id_resolve_miss(t) ==
    /\ Locked(t, "record_var_id_resolve_miss", 1, 1, "idle", NoArgs)
    /\ var_id_resolve_misses' =
          Append(var_id_resolve_misses,
                 [raw_id |-> "Var X", resolved_id |-> "var_x", match_type |-> "fuzzy"])
    /\ OnlyChanges({"var_id_resolve_misses"})

(* ------------------------------ summary ------------------------------ *)

\* The reads summary() makes of the recorder, in source order (lines 326-388).  None
\* is made under the lock.  "sd_iter" and "sd_next" are the dict comprehension over
\* self.stage_durations.items(): the iterator is made, then advanced once per item
\* and once more to find the end.
SummaryReads ==
    << "run_time", "pw_lat_sum", "pw_lat_len", "llm_lat_sum", "llm_lat_len",
       "run_start_utc", "sd_iter", "sd_next",
       "raw_discovered", "after_canonicalization", "added_to_engine",
       "llm_total", "by_model", "total_prompt_chars", "total_completion_chars",
       "est_total_prompt_tokens", "retries", "errors", "quota_errors", "fallbacks",
       "total_pairs", "edges_found_A", "edges_found_B", "no_relationship_C",
       "answers_recovered", "parse_failures", "exceptions",
       "edge_dropout",
       "edges_submitted", "judge_calls", "adversarial_calls", "grounded", "rejected",
       "no_evidence_retrievals", "exhausted_iterations", "duplicate_query_breaks",
       "adversarial_rejections", "conf_sum", "conf_len", "rejection_reasons",
       "var_id_resolve_misses", "evidence_cache_size" >>

\* datetime.now(tz=timezone.utc): the wall clock at the moment of the call
WallClockNow == now

\* datetime.fromtimestamp(self.run_start_wall, tz=timezone.utc) (line 336)
RunStartUtc == run_start_wall

\* What one read finds in the recorder at the moment it is made.
ReadValue(name) ==
    CASE name = "run_time" -> now - run_start
      [] name = "pw_lat_sum" -> SumSeq(pywhyllm.per_call_latency_ms)
      [] name = "pw_lat_len" -> Len(pywhyllm.per_call_latency_ms)
      [] name = "llm_lat_sum" -> SumSeq(llm.latency_samples_ms)
      [] name = "llm_lat_len" -> Len(llm.latency_samples_ms)
      [] name = "run_start_utc" -> RunStartUtc
      [] name = "raw_discovered" -> variable_count_raw
      [] name = "after_canonicalization" -> variable_count_canonical
      [] name = "added_to_engine" -> variable_count_added
      [] name = "llm_total" -> llm.total_calls
      [] name = "by_model" -> llm.calls_by_model
      [] name = "total_prompt_chars" -> llm.total_prompt_chars
      [] name = "total_completion_chars" -> llm.total_completion_chars
      [] name = "est_total_prompt_tokens" -> llm.total_prompt_tokens_est
      [] name = "retries" -> llm.total_retries
      [] name = "errors" -> llm.total_errors
      [] name = "quota_errors" -> llm.total_quota_errors
      [] name = "fallbacks" -> llm.total_fallbacks
      [] name = "total_pairs" -> pywhyllm.total_pairs
      [] name = "edges_found_A" -> pywhyllm.pairs_a
      [] name = "edges_found_B" -> pywhyllm.pairs_b
      [] name = "no_relationship_C" -> pywhyllm.pairs_c
      [] name = "answers_recovered" -> pywhyllm.pairs_normalized
      [] name = "parse_failures" -> pywhyllm.pairs_parse_fail
      [] name = "exceptions" -> pywhyllm.pairs_exception
      [] name = "edge_dropout" -> edge_dropout
      [] name = "edges_submitted" -> verification.total_edges_submitted
      [] name = "judge_calls" -> verification.total_judge_calls
      [] name = "adversarial_calls" -> verification.total_adversarial_calls
      [] name = "grounded" -> verification.grounded_count
      [] name = "rejected" -> verification.rejected_count
      [] name = "no_evidence_retrievals" -> verification.no_evidence_count
      [] name = "exhausted_iterations" -> verification.exhausted_iterations_count
      [] name = "duplicate_query_breaks" -> verification.duplicate_query_breaks
      [] name = "adversarial_rejections" -> verification.adversarial_rejections
      [] name = "conf_sum" -> SumSeq(verification.verdict_confidences)
      [] name = "conf_len" -> Len(verification.verdict_confidences)
      [] name = "rejection_reasons" -> Slice(verification.rejection_reasons, 50)
      [] name = "var_id_resolve_misses" -> Slice(var_id_resolve_misses, 30)
      [] name = "evidence_cache_size" -> evidence_cache_size

\* len(samples), with no guard against an empty list
Unguarded(n) == n

\* max(len(samples), 1)
Denominator(n) == Max(n, 1)

\* round(total / n, digits) for a total in units of 10^digits: half rounds up
RoundedAverage(total, n) == ((2 * total) \div n + 1) \div 2

\* The dict summary() returns (lines 335-389), from the reads r it made.
SummaryDict(r) ==
    [ k |-> "summary",
      run_start_utc |-> r.run_start_utc,
      total_run_seconds |-> Round2(r.run_time),
      stage_durations_seconds |-> r.stage_durations_seconds,
      variables |-> [raw_discovered |-> r.raw_discovered,
                     after_canonicalization |-> r.after_canonicalization,
                     added_to_engine |-> r.added_to_engine],
      llm_calls |-> [total |-> r.llm_total,
                     by_model |-> r.by_model,
                     total_prompt_chars |-> r.total_prompt_chars,
                     total_completion_chars |-> r.total_completion_chars,
                     est_total_prompt_tokens |-> r.est_total_prompt_tokens,
                     avg_latency_ms |->
                         RoundedAverage(10 * r.llm_lat_sum, Denominator(r.llm_lat_len)),
                     retries |-> r.retries,
                     errors |-> r.errors,
                     quota_errors |-> r.quota_errors,
                     fallbacks_to_prompt_injection |-> r.fallbacks],
      pywhyllm_pairwise |-> [total_pairs |-> r.total_pairs,
                             edges_found_A |-> r.edges_found_A,
                             edges_found_B |-> r.edges_found_B,
                             no_relationship_C |-> r.no_relationship_C,
                             answers_recovered_via_normalization |-> r.answers_recovered,
                             parse_failures |-> r.parse_failures,
                             exceptions |-> r.exceptions,
                             avg_latency_ms |->
                                 RoundedAverage(10 * r.pw_lat_sum, Denominator(r.pw_lat_len))],
      edge_dropout |-> r.edge_dropout,
      verification |-> [edges_submitted |-> r.edges_submitted,
                        judge_calls |-> r.judge_calls,
                        adversarial_calls |-> r.adversarial_calls,
                        grounded |-> r.grounded,
                        rejected |-> r.rejected,
                        no_evidence_retrievals |-> r.no_evidence_retrievals,
                        exhausted_iterations |-> r.exhausted_iterations,
                        duplicate_query_breaks |-> r.duplicate_query_breaks,
                        adversarial_rejections |-> r.adversarial_rejections,
                        avg_verdict_confidence |->
                            RoundedAverage(10 * r.conf_sum, Denominator(r.conf_len)),
                        rejection_reasons |-> r.rejection_reasons],
      var_id_resolve_misses |-> r.var_id_resolve_misses,
      evidence_cache_size |-> r.evidence_cache_size ]

\* The object an iterator runs over: the recorder's own, or the one reset() replaced.
Target(it, own) == IF it.live THEN own ELSE it.obj

NoIterator == [live |-> FALSE, obj |-> <<>>]

SummaryFrame(caller) ==
    [m |-> "summary", caller |-> caller, i |-> 2, it |-> NoIterator, used |-> 0, seen |-> {}]

\* What summary(), dump() and print_summary() do to the recorder: nothing.
ReadOnly == UNCHANGED telVars

\* The first read of summary(), made as the call begins.
SummaryBegin(t, caller) ==
    /\ snap' = [snap EXCEPT ![t] = DictSet(EmptyDict, "run_time", ReadValue("run_time"))]
    /\ args' = [args EXCEPT ![t] = SummaryFrame(caller)]
    /\ Goto(t, "summary")
    /\ clean' = [clean EXCEPT ![t] = TRUE]
    /\ ReadOnly
    /\ UNCHANGED <<now, lock, ev, artifact, judgeVars, permits, loopVars, moduleVars, last_summary>>

\* The exception leaves the call: the thread holds no frame and is at "raised".
Raise(t) ==
    /\ pc' = [pc EXCEPT ![t] = "raised"]
    /\ args' = [args EXCEPT ![t] = NoArgs]
    /\ snap' = [snap EXCEPT ![t] = NoSnap]

\* Where the caller goes on once summary() has made its last read.
AfterSummary(caller) ==
    CASE caller = "summary" -> "summary_return"
      [] caller = "dump" -> "dump_raw"
      [] caller = "print_summary" -> "print_len"

summary(t) ==
    \/ /\ CanCall(t)
       /\ Call(t, "summary")
       /\ SummaryBegin(t, "summary")
    \* one attribute read; a sample count of 0 would divide by zero
    \/ /\ pc[t] = "summary"
       /\ LET a == args[t]
              name == SummaryReads[a.i]
              value == ReadValue(name)
          IN  /\ name \notin {"sd_iter", "sd_next"}
              /\ IF name \in {"pw_lat_len", "llm_lat_len", "conf_len"} /\ Denominator(value) = 0
                 THEN Raise(t)
                 ELSE /\ snap' = [snap EXCEPT ![t] = DictSet(@, name, value)]
                      /\ IF a.i = Len(SummaryReads)
                         THEN /\ Goto(t, AfterSummary(a.caller))
                              /\ args' = [args EXCEPT ![t] = [m |-> AfterSummary(a.caller)]]
                         ELSE /\ UNCHANGED pc
                              /\ args' = [args EXCEPT ![t] = At(a, a.i + 1)]
       /\ ReadOnly
       /\ UNCHANGED <<now, lock, ev, artifact, judgeVars, permits, loopVars, moduleVars, ncalls, ghostVars>>
    \* iter(self.stage_durations.items()): the iterator notes the dict's size
    \/ /\ pc[t] = "summary"
       /\ SummaryReads[args[t].i] = "sd_iter"
       /\ snap' = [snap EXCEPT ![t] = DictSet(@, "stage_durations_seconds", EmptyDict)]
       /\ args' = [args EXCEPT ![t] =
                     [@ EXCEPT !.i = @ + 1, !.it = [live |-> TRUE, obj |-> <<>>],
                               !.used = Cardinality(DOMAIN stage_durations), !.seen = {}]]
       /\ ReadOnly
       /\ UNCHANGED <<now, lock, pc, ev, artifact, judgeVars, permits, loopVars, moduleVars, ncalls, ghostVars>>
    \* next(iterator): RuntimeError if the dict changed size, else the next item
    \* (round(v, 2) of the value it holds now), else the end
    \/ /\ pc[t] = "summary"
       /\ SummaryReads[args[t].i] = "sd_next"
       /\ LET a == args[t]
              d == Target(a.it, stage_durations)
              left == DOMAIN d \ a.seen
          IN  IF Cardinality(DOMAIN d) # a.used
              THEN Raise(t)
              ELSE IF left # {}
              THEN LET key == CHOOSE x \in left : TRUE
                   IN  /\ snap' = [snap EXCEPT ![t] =
                                     [@ EXCEPT !.stage_durations_seconds =
                                         DictSet(@, key, Round2(d[key]))]]
                       /\ args' = [args EXCEPT ![t] = [a EXCEPT !.seen = @ \cup {key}]]
                       /\ UNCHANGED pc
              ELSE /\ args' = [args EXCEPT ![t] =
                                 [a EXCEPT !.i = @ + 1, !.it = NoIterator, !.used = 0,
                                           !.seen = {}]]
                   /\ UNCHANGED <<pc, snap>>
       /\ ReadOnly
       /\ UNCHANGED <<now, lock, ev, artifact, judgeVars, permits, loopVars, moduleVars, ncalls, ghostVars>>
    \* return {...}
    \/ /\ pc[t] = "summary_return"
       /\ last_summary' = IF clean[t] THEN SummaryDict(snap[t]) ELSE last_summary
       /\ clean' = [clean EXCEPT ![t] = FALSE]
       /\ snap' = [snap EXCEPT ![t] = NoSnap]
       /\ Return(t)
       /\ ReadOnly
       /\ UNCHANGED <<now, lock, ev, artifact, judgeVars, permits, loopVars, moduleVars, budget, ncalls, made>>

(* ------------------------- dump and print_summary --------------------- *)

\* One entry of the "events" list of the dumped document (lines 403-409).
DumpedEvent(e, start) ==
    [stage |-> e.stage, event |-> e.event, wall_clock |-> e.wall_clock,
     elapsed_since_start |-> Round3(e.timestamp - start), data |-> e.data]

\* The comprehension over the log with the newest entry put first
DumpNextNewestFirst(out, e, start) == <<DumpedEvent(e, start)>> \o out

\* One round of the comprehension `[{...} for ev in self.events]`: the entry of the
\* next event goes to the end of the list built so far.
DumpNext(out, e, start) == Append(out, DumpedEvent(e, start))

\* A non-negative integer as json writes it: its decimal digits, first digit first.
RECURSIVE Digits(_)
Digits(n) == IF n < 10 THEN <<n>> ELSE Append(Digits(n \div 10), n % 10)

\* The integer json reads from a run of decimal digits.
RECURSIVE ParseDigits(_)
ParseDigits(d) ==
    IF Len(d) = 1 THEN d[1]
    ELSE 10 * ParseDigits(SubSeq(d, 1, Len(d) - 1)) + d[Len(d)]

\* A number of the document as text: a sign and digits.
JsonNumber(n) == [json |-> "number", minus |-> n < 0, digits |-> Digits(IF n < 0 THEN -n ELSE n)]

\* A str of the document as text: the string between quotes.
JsonString(x) == [json |-> "string", chars |-> x]

ParseNumber(j) == IF j.minus THEN -ParseDigits(j.digits) ELSE ParseDigits(j.digits)

\* json.dump(payload, f, indent=2, default=str): the text written for the document.
\* The counters of "llm_calls" and the stage, event and elapsed_since_start of each
\* entry of "events" are written out as text; the other members, which hold further
\* numbers, strings and null, are carried as they are.
JsonDump(payload) ==
    [json |-> "object",
     summary |-> [json |-> "object",
                  llm_calls |-> [json |-> "object",
                                 total |-> JsonNumber(payload.summary.llm_calls.total),
                                 retries |-> JsonNumber(payload.summary.llm_calls.retries),
                                 errors |-> JsonNumber(payload.summary.llm_calls.errors),
                                 rest |-> payload.summary.llm_calls],
                  rest |-> payload.summary],
     pywhyllm_raw_outputs |-> payload.pywhyllm_raw_outputs,
     events |-> [i \in 1 .. Len(payload.events) |->
                   [json |-> "object",
                    stage |-> JsonString(payload.events[i].stage),
                    event |-> JsonString(payload.events[i].event),
                    elapsed_since_start |->
                        JsonNumber(payload.events[i].elapsed_since_start),
                    wall_clock |-> payload.events[i].wall_clock,
                    data |-> payload.events[i].data]]]

\* json.load(f): the dicts, lists, ints and strs read back from the text.
JsonLoad(text) ==
    [summary |-> [llm_calls |-> [total |-> ParseNumber(text.summary.llm_calls.total),
                                 retries |-> ParseNumber(text.summary.llm_calls.retries),
                                 errors |-> ParseNumber(text.summary.llm_calls.errors)]],
     pywhyllm_raw_outputs |-> text.pywhyllm_raw_outputs,
     events |-> [i \in 1 .. Len(text.events) |->
                   [stage |-> text.events[i].stage.chars,
                    event |-> text.events[i].event.chars,
                    elapsed_since_start |-> ParseNumber(text.events[i].elapsed_since_start),
                    wall_clock |-> text.events[i].wall_clock,
                    data |-> text.events[i].data]]]

dump(t) ==
    \* "summary": self.summary()
    \/ /\ CanCall(t)
       /\ Call(t, "dump")
       /\ SummaryBegin(t, "dump")
    \* "pywhyllm_raw_outputs": self.pywhyllm.raw_outputs, then iter(self.events)
    \/ /\ pc[t] = "dump_raw"
       /\ args' = [args EXCEPT ![t] =
                     [m |-> "dump_events", raw |-> pywhyllm.raw_outputs,
                      it |-> [live |-> TRUE, obj |-> <<>>], j |-> 0, out |-> <<>>]]
       /\ Goto(t, "dump_events")
       /\ ReadOnly
       /\ UNCHANGED <<now, lock, ev, snap, artifact, judgeVars, permits, loopVars, moduleVars, ncalls, ghostVars>>
    \* for ev in self.events: one entry, with self.run_start as it is now
    \/ /\ pc[t] = "dump_events"
       /\ LET a == args[t]
              log == Target(a.it, events)
          IN  IF a.j < Len(log)
              THEN /\ args' = [args EXCEPT ![t] =
                                 [a EXCEPT !.j = @ + 1,
                                           !.out = DumpNext(@, log[a.j + 1], run_start)]]
                   /\ UNCHANGED pc
              ELSE /\ args' = [args EXCEPT ![t] = [m |-> "dump_write", raw |-> a.raw,
                                                    out |-> a.out]]
                   /\ Goto(t, "dump_write")
       /\ ReadOnly
       /\ UNCHANGED <<now, lock, ev, snap, artifact, judgeVars, permits, loopVars, moduleVars, ncalls, ghostVars>>
    \* json.dump(payload, f, indent=2, default=str)
    \/ /\ pc[t] = "dump_write"
       /\ artifact' = [k |-> "document", summary |-> SummaryDict(snap[t]),
                       pywhyllm_raw_outputs |-> args[t].raw, events |-> args[t].out]
       /\ UNCHANGED <<judgeVars, permits, loopVars, moduleVars>>
       /\ snap' = [snap EXCEPT ![t] = NoSnap]
       /\ Return(t)
       /\ ReadOnly
       /\ UNCHANGED <<now, lock, ev, ncalls, ghostVars>>

print_summary(t) ==
    \* s = self.summary()
    \/ /\ CanCall(t)
       /\ Call(t, "print_summary")
       /\ SummaryBegin(t, "print_summary")
    \* len(self.var_id_resolve_misses)
    \/ /\ pc[t] = "print_len"
       /\ args' = [args EXCEPT ![t] = [m |-> "print_summary",
                                       total |-> Len(var_id_resolve_misses)]]
       /\ Goto(t, "print_misses")
       /\ ReadOnly
       /\ UNCHANGED <<now, lock, ev, snap, artifact, judgeVars, permits, loopVars, moduleVars, ncalls, ghostVars>>
    \* for miss in self.var_id_resolve_misses[:10], then return "\n".join(lines)
    \/ /\ pc[t] = "print_misses"
       /\ snap' = [snap EXCEPT ![t] = NoSnap]
       /\ Return(t)
       /\ ReadOnly
       /\ UNCHANGED <<now, lock, ev, artifact, judgeVars, permits, loopVars, moduleVars, ncalls, ghostVars>>

(* --------------------------- verification judge ----------------------- *)

\* Number of chunks in an evidence list at most.
MaxChunks == 2

\* EvidenceBundle values: with a title, page and section; with an id only, no
\* location and the placeholder's own words as content. A page_number of 0 stands
\* for 0 and for None.
Chunks ==
    { [content |-> "price drives demand",
       source |-> [doc_id |-> "d1", doc_title |-> "Plan"],
       location |-> [page_number |-> 3, section_name |-> "Intro"]],
      [content |-> "(no evidence retrieved)",
       source |-> [doc_id |-> "d2", doc_title |-> None],
       location |-> [page_number |-> 0, section_name |-> None]] }

RECURSIVE SeqsUpTo(_, _)
SeqsUpTo(S, n) ==
    IF n = 0 THEN {<<>>}
    ELSE LET shorter == SeqsUpTo(S, n - 1)
         IN  shorter \cup {Append(q, x) : q \in {r \in shorter : Len(r) = n - 1}, x \in S}

EvidenceLists == SeqsUpTo(Chunks, MaxChunks)

\* supporting_quote of evaluate_adversarial: a quote, the empty string, None
Quotes == {"price drives demand", "", None}

\* A text is a sequence of pieces: literal characters, or an integer as formatted.
Lit(x) == [piece |-> "chars", chars |-> x, digits |-> <<>>]

\* `x or y` on an Optional[str]
OrElse(x, y) == IF x # None /\ x # "" THEN x ELSE y

\* f"{i}" of a non-negative int
Str(i) == [piece |-> "int", chars |-> "", digits |-> Digits(i)]

\* ", ".join(loc_parts) if loc_parts else "unknown location" (lines 333-337)
Loc(location) ==
    LET page == IF location.page_number # 0
                THEN <<Lit("p."), Str(location.page_number)>> ELSE <<>>
        section == IF location.section_name # None /\ location.section_name # ""
                   THEN <<Lit(location.section_name)>> ELSE <<>>
    IN  IF page = <<>> /\ section = <<>> THEN <<Lit("unknown location")>>
        ELSE IF page # <<>> /\ section # <<>> THEN page \o <<Lit(", ")>> \o section
        ELSE page \o section

\* f"### Chunk {i} [{source} -- {loc}]\n{chunk.content}\n" (lines 339-341), with
\* the dash between source and location written "--"
Part(i, chunk) ==
    <<Lit("### Chunk "), Str(i), Lit(" ["),
      Lit(OrElse(chunk.source.doc_title, chunk.source.doc_id)), Lit(" -- ")>>
    \o Loc(chunk.location)
    \o <<Lit("]\n"), Lit(chunk.content), Lit("\n")>>

\* "\n".join(parts) with parts[i] the part of chunk i + first - 1
RECURSIVE JoinParts(_, _)
JoinParts(chunks, first) ==
    IF Len(chunks) = 1 THEN Part(first, Head(chunks))
    ELSE Part(first, Head(chunks)) \o <<Lit("\n")>> \o JoinParts(Tail(chunks), first + 1)

Placeholder == <<Lit("(no evidence retrieved)")>>

\* _format_evidence numbering the chunks as enumerate(chunks) does: from 0
FormatEvidenceFromZero(chunks) ==
    IF chunks = <<>> THEN Placeholder ELSE JoinParts(chunks, 0)

\* _format_evidence(chunks): the numbered block for the prompt
FormatEvidence(chunks) ==
    IF chunks = <<>> THEN Placeholder ELSE JoinParts(chunks, 1)

\* _format_evidence consuming its argument: `while chunks: chunk = chunks.pop(0)`
EvidenceDrained(chunks) == <<>>

\* The list _format_evidence was passed, after the call: the loop only reads it.
EvidenceAfterFormat(chunks) == chunks

\* _GROUNDING_TEMPLATE.format(...)
GroundingPrompt(from_var, to_var, mechanism, evidence_block) ==
    [template |-> "_GROUNDING_TEMPLATE", from_var |-> from_var, to_var |-> to_var,
     mechanism |-> mechanism, evidence_block |-> evidence_block]

\* _ADVERSARIAL_TEMPLATE.format(...)
AdversarialPrompt(from_var, to_var, mechanism, supporting_quote) ==
    [template |-> "_ADVERSARIAL_TEMPLATE", from_var |-> from_var, to_var |-> to_var,
     mechanism |-> mechanism,
     supporting_quote |-> OrElse(supporting_quote, "(no quote extracted)")]

\* The keyword arguments of self.llm.generate_structured_native(...), sent for call id.
Request(id, client, prompt, output_schema, system_prompt, model_override) ==
    [call |-> id, client |-> client, prompt |-> prompt, output_schema |-> output_schema,
     system_prompt |-> system_prompt, model_override |-> model_override]

\* Instances of the schemas the oracle client may hand back (its contract: a value
\* that satisfies the requested schema).
Verdicts(output_schema) ==
    IF output_schema = "VerificationVerdict"
    THEN { [is_grounded |-> TRUE, support_type |-> "direct_causal",
            supporting_quote |-> "price drives demand", rejection_reason |-> None,
            confidence |-> 80, suggested_refinement_query |-> None],
           [is_grounded |-> TRUE, support_type |-> "direct_causal",
            supporting_quote |-> "price drives demand", rejection_reason |-> None,
            confidence |-> 40, suggested_refinement_query |-> None],
           [is_grounded |-> TRUE, support_type |-> "correlation_only",
            supporting_quote |-> None, rejection_reason |-> None,
            confidence |-> 30, suggested_refinement_query |-> None],
           [is_grounded |-> FALSE, support_type |-> "irrelevant",
            supporting_quote |-> None, rejection_reason |-> "off topic",
            confidence |-> 30, suggested_refinement_query |-> "price elasticity"],
           [is_grounded |-> FALSE, support_type |-> "irrelevant",
            supporting_quote |-> None, rejection_reason |-> "off topic",
            confidence |-> 30, suggested_refinement_query |-> "demand curve"],
           [is_grounded |-> FALSE, support_type |-> "correlation_only",
            supporting_quote |-> None, rejection_reason |-> "correlation only",
            confidence |-> 20, suggested_refinement_query |-> "price demand"],
           [is_grounded |-> FALSE, support_type |-> "irrelevant",
            supporting_quote |-> None, rejection_reason |-> None,
            confidence |-> 10, suggested_refinement_query |-> ""] }
    ELSE { [still_grounded |-> TRUE, alternative_explanations |-> <<>>,
            assumptions_required |-> <<"stable market">>, conditions |-> <<>>,
            confidence |-> 70],
           [still_grounded |-> FALSE, alternative_explanations |-> <<"confounding">>,
            assumptions_required |-> <<>>, conditions |-> <<>>, confidence |-> 20] }

\* A step of a judge call touches neither the recorder's lock nor its readers.
JudgeStep ==
    UNCHANGED <<now, lock, ev, snap, artifact, loopVars, moduleVars>>

\* The verdict goes to the caller as the client returned it.
ReturnVerdict(t) ==
    /\ returned' = [returned EXCEPT ![t] =
                      [outcome |-> "verdict", call |-> args[t].call,
                       value |-> args[t].verdict]]
    /\ Return(t)
    /\ JudgeStep
    /\ UNCHANGED <<budget, ncalls, made, clean, last_summary, telVars, judge, oracle, given,
                   permits>>

\* The request sent again after the first one: a retry inside the judge
SendTwice(t, request, waiting) ==
    /\ oracle' = oracle \o <<request, request>>
    /\ Goto(t, waiting)

\* await self.llm.generate_structured_native(...): the request goes out.
Send(t, request, waiting) ==
    /\ oracle' = Append(oracle, request)
    /\ Goto(t, waiting)

evaluate(t) ==
    \* lines 239-263: format the evidence, build the prompt, send the one request
    \/ /\ CanCall(t)
       /\ Call(t, "evaluate")
       /\ \E evidence_chunks \in EvidenceLists :
            LET evidence_block == FormatEvidence(evidence_chunks)
                prompt == GroundingPrompt("price", "demand", "elasticity", evidence_block)
            IN  /\ given' = [given EXCEPT ![t] =
                               [m |-> "evaluate", from_var |-> "price", to_var |-> "demand",
                                mechanism |-> "elasticity",
                                evidence_chunks |-> EvidenceAfterFormat(evidence_chunks)]]
                /\ args' = [args EXCEPT ![t] =
                              [m |-> "evaluate", call |-> ncalls + 1,
                               passed |-> evidence_chunks, prompt |-> prompt]]
                /\ Send(t, Request(ncalls + 1, judge.llm, prompt, "VerificationVerdict",
                                   "_GROUNDING_SYSTEM", judge.judge_model),
                        "evaluate_await")
       /\ JudgeStep
       /\ UNCHANGED <<clean, last_summary, telVars, judge, returned, permits>>
    \* line 275: return verdict
    \/ /\ pc[t] = "evaluate_return"
       /\ ReturnVerdict(t)

evaluate_adversarial(t) ==
    \* lines 289-299: build the prompt; _tel.verification.total_adversarial_calls is
    \* read, with no lock held
    \/ /\ CanCall(t)
       /\ Call(t, "evaluate_adversarial")
       /\ \E supporting_quote \in Quotes :
            /\ given' = [given EXCEPT ![t] =
                           [m |-> "evaluate_adversarial", from_var |-> "price",
                            to_var |-> "demand", mechanism |-> "elasticity",
                            supporting_quote |-> supporting_quote]]
            /\ args' = [args EXCEPT ![t] =
                          [m |-> "evaluate_adversarial", call |-> ncalls + 1,
                           passed |-> supporting_quote,
                           prompt |-> AdversarialPrompt("price", "demand", "elasticity",
                                                        supporting_quote),
                           loaded |-> verification.total_adversarial_calls]]
       /\ Goto(t, "adversarial_store")
       /\ JudgeStep
       /\ UNCHANGED <<clean, last_summary, telVars, judge, oracle, returned, permits>>
    \* line 299: the sum is stored, with no lock held
    \/ /\ pc[t] = "adversarial_store"
       /\ verification' = [verification EXCEPT !.total_adversarial_calls = args[t].loaded + 1]
       /\ Goto(t, "adversarial_send")
       /\ Touch
       /\ JudgeStep
       /\ UNCHANGED <<args, budget, ncalls, made, judgeVars, permits,
                      run_start, run_start_wall, events, stage_starts, stage_durations,
                      llm, pywhyllm, edge_dropout, variable_count_raw,
                      variable_count_canonical, variable_count_added,
                      evidence_cache_size, var_id_resolve_misses>>
    \* lines 302-307: send the one request
    \/ /\ pc[t] = "adversarial_send"
       /\ Send(t, Request(args[t].call, judge.llm, args[t].prompt, "AdversarialVerdict",
                          "_ADVERSARIAL_SYSTEM", judge.judge_model),
               "adversarial_await")
       /\ JudgeStep
       /\ UNCHANGED <<args, budget, ncalls, made, clean, last_summary, telVars,
                      judge, given, returned, permits>>
    \* line 317: return verdict
    \/ /\ pc[t] = "adversarial_return"
       /\ ReturnVerdict(t)

\* The request thread t waits on.
Pending(t) == CHOOSE r \in {oracle[i] : i \in 1 .. Len(oracle)} : r.call = args[t].call

\* The permit of thread t goes back to the pool.
KeepPermit(t) == UNCHANGED permits

Release(t) == permits' = permits \ {t}

\* The oracle client serves the request of thread t. It first takes a permit of the
\* shared semaphore, waiting while config.llm_semaphore_limit calls hold one; then
\* the call answers with an instance of the schema, or with an oracle error, which
\* neither method of the judge catches (the client's contract: it returns a value
\* of the schema or fails). The permit goes back either way. The client's retries
\* are inside the call: its failure is the failure of the last attempt.
generate_structured_native(t) ==
    /\ pc[t] \in {"evaluate_await", "adversarial_await"}
    /\ \/ /\ t \notin permits
          /\ Cardinality(permits) < config.llm_semaphore_limit
          /\ permits' = permits \cup {t}
          /\ UNCHANGED <<pc, args, returned>>
       \/ /\ t \in permits
          /\ \E verdict \in Verdicts(Pending(t).output_schema) :
               /\ args' = [args EXCEPT ![t] =
                             [m |-> args[t].m, call |-> args[t].call, verdict |-> verdict]]
               /\ Goto(t, IF pc[t] = "evaluate_await" THEN "evaluate_return"
                          ELSE "adversarial_return")
               /\ UNCHANGED returned
          /\ Release(t)
       \/ /\ t \in permits
          /\ returned' = [returned EXCEPT ![t] =
                            [outcome |-> "OracleError", call |-> args[t].call]]
          /\ Return(t)
          /\ Release(t)
    /\ JudgeStep
    /\ UNCHANGED <<budget, ncalls, made, clean, last_summary, telVars, judge, oracle, given>>

(* ------------------------- verification loop -------------------------- *)

\* The loop that grounds one edge: Pending -> Retrieving -> Judging ->
\* {Accepted, Refining, Rejected}. Edge e is verified by task e, which calls the
\* judge above; the loops of different edges interleave.

\* The most rounds a configuration of the model allows.
MaxIterations == 2

\* The query an edge enters the loop with.
InitialQuery == "price demand"

\* What the retriever may hand back for a query: nothing, or its top chunk.
Retrieved == {<<>>, <<CHOOSE c \in Chunks : c.source.doc_title # None>>}

\* The confidence from which an accepted edge counts as "strong".
StrongConfidence == 70

Terminal == {"Accepted", "Rejected"}

InLoop == {"Pending", "Retrieving", "Judging", "Refining"}

\* The Verification outcome of an edge.
Outcome(grounded, rejection_reason, iterations_used) ==
    [grounded |-> grounded, rejection_reason |-> rejection_reason,
     iterations_used |-> iterations_used]

\* Accepting on the judge's word alone, whatever its confidence
GroundedAtAnyConfidence(verdict, threshold) == verdict.is_grounded

\* (a) the verdict accepts: is_grounded, with confidence at or above the threshold
MeetsThreshold(verdict, threshold) ==
    verdict.is_grounded /\ verdict.confidence >= threshold

\* (a) the adversarial pass is due: enabled, and the confidence says "strong"
AdversarialDue(cfg, verdict) ==
    cfg.enable_adversarial_pass /\ verdict.confidence >= StrongConfidence

\* An adversarial verdict that is not read
StandsUnheard(adversarial) == TRUE

\* (a) the edge survives the adversarial pass
StillStands(adversarial) == adversarial.still_grounded

\* Refining on any query the judge names, the one just used included
AnyRefinement(query, last_query) == query # None /\ query # ""

\* (b) the refinement query is present, non-empty and not the query just used
UsableRefinement(query, last_query) ==
    query # None /\ query # "" /\ query # last_query

\* (c) the reason of a duplicate-query break
BreakReason(ever_retrieved, verdict) ==
    IF ever_retrieved THEN verdict.rejection_reason ELSE "no_evidence"

\* A loop that allows itself one round more
OneMoreRound(iteration, max_judge_iterations) == iteration <= max_judge_iterations

\* (b), (d) the loop goes on while iteration < max_judge_iterations
MayLoop(iteration, max_judge_iterations) == iteration < max_judge_iterations

\* A step of a loop leaves the recorder, the judge's calls and the pool alone.
LoopStep ==
    UNCHANGED <<now, lock, pc, args, ev, snap, ncalls, artifact, ghostVars, telVars,
                judge, oracle, given, permits, config, moduleVars>>

\* The edge is decided: the loop ends with its one outcome.
Finish(e, state, rejection_reason, iterations_used, calls, challenges, seen) ==
    loop' = [loop EXCEPT ![e] =
               [@ EXCEPT !.state = state, !.judge_calls = calls,
                         !.adversarial_calls = challenges, !.verdicts = seen,
                         !.challenged = FALSE,
                         !.outcome = Outcome(state = "Accepted", rejection_reason,
                                             iterations_used)]]

\* A failed judge call waved through
FailureIgnored(e, calls, challenges) ==
    Finish(e, "Accepted", None, loop[e].iteration + 1, calls, challenges, loop[e].verdicts)

\* A judge call that failed becomes the outcome Rejected "judge_error" of its edge.
JudgeError(e, calls, challenges) ==
    Finish(e, "Rejected", "judge_error", loop[e].iteration + 1, calls, challenges,
           loop[e].verdicts)

\* The edge enters the loop: iteration = 0, last_query = the initial query.
Submit(e) ==
    /\ pipeline = "running"
    /\ loop[e].state = "Unsubmitted"
    /\ loop' = [loop EXCEPT ![e] = [@ EXCEPT !.state = "Pending", !.iteration = 0,
                                             !.last_query = InitialQuery]]
    /\ LoopStep
    /\ UNCHANGED <<returned, pipeline>>

\* Retrieving with the query the edge came with, round after round
FirstQuery(l) == InitialQuery

\* The query a round retrieves with: last_query, the one suggested most recently.
RoundQuery(l) == l.last_query

\* A round begins: the retriever is asked for the top chunks of last_query.
Retrieve(e) ==
    /\ pipeline = "running"
    /\ loop[e].state \in {"Pending", "Refining"}
    /\ loop' = [loop EXCEPT ![e] = [@ EXCEPT !.state = "Retrieving",
                                             !.queries = Append(@, RoundQuery(loop[e]))]]
    /\ LoopStep
    /\ UNCHANGED <<returned, pipeline>>

\* The retriever answers: with chunks (possibly none), or its backend cannot be
\* reached, which is fatal to the pipeline and not an outcome of the edge.
Retriever(e) ==
    /\ loop[e].state = "Retrieving"
    /\ pipeline = "running"
    /\ \/ \E chunks \in Retrieved :
            /\ loop' = [loop EXCEPT ![e] =
                          [@ EXCEPT !.state = "Judging", !.evidence = chunks,
                                    !.ever_retrieved = @ \/ chunks # <<>>]]
            /\ UNCHANGED pipeline
       \/ /\ pipeline' = "aborted"
          /\ UNCHANGED loop
    /\ LoopStep
    /\ UNCHANGED returned

\* The round's judge call: evaluate() on the evidence just retrieved.
Judge(e) ==
    /\ pipeline = "running"
    /\ loop[e].state = "Judging"
    /\ ~ loop[e].challenged
    /\ pc[e] = "idle"
    /\ returned[e] = NoVerdict
    /\ evaluate(e)
    /\ args'[e].passed = loop[e].evidence

\* The adversarial pass: evaluate_adversarial() on the quote of the accepting verdict.
Challenge(e) ==
    /\ pipeline = "running"
    /\ loop[e].state = "Judging"
    /\ loop[e].challenged
    /\ pc[e] = "idle"
    /\ returned[e] = NoVerdict
    /\ evaluate_adversarial(e)
    /\ args'[e].passed = loop[e].verdicts[Len(loop[e].verdicts)].supporting_quote

\* The judge call of the round has ended: rules (a) to (d), and a failed call
\* becomes the outcome "judge_error".
Decide(e) ==
    /\ loop[e].state = "Judging"
    /\ ~ loop[e].challenged
    /\ pc[e] = "idle"
    /\ returned[e] # NoVerdict
    /\ LET l == loop[e]
           calls == l.judge_calls + 1
       IN  IF returned[e].outcome = "OracleError"
           THEN JudgeError(e, calls, l.adversarial_calls)
           ELSE LET verdict == returned[e].value
                    seen == Append(l.verdicts, verdict)
                    query == verdict.suggested_refinement_query
                IN  IF MeetsThreshold(verdict, config.grounding_confidence_threshold)
                    THEN IF AdversarialDue(config, verdict)
                         THEN loop' = [loop EXCEPT ![e] =
                                         [@ EXCEPT !.challenged = TRUE, !.verdicts = seen,
                                                   !.judge_calls = calls]]
                         ELSE Finish(e, "Accepted", None, l.iteration + 1, calls,
                                     l.adversarial_calls, seen)
                    ELSE IF UsableRefinement(query, l.last_query)
                    THEN IF MayLoop(l.iteration + 1, config.max_judge_iterations)
                         THEN loop' = [loop EXCEPT ![e] =
                                         [@ EXCEPT !.state = "Refining",
                                                   !.last_query = query,
                                                   !.iteration = @ + 1,
                                                   !.verdicts = seen,
                                                   !.judge_calls = calls]]
                         ELSE loop' = [loop EXCEPT ![e] =
                                         [@ EXCEPT !.state = "Rejected",
                                                   !.last_query = query,
                                                   !.iteration = @ + 1,
                                                   !.verdicts = seen,
                                                   !.judge_calls = calls,
                                                   !.outcome =
                                                       Outcome(FALSE, "exhausted_iterations",
                                                               l.iteration + 1)]]
                    ELSE Finish(e, "Rejected", BreakReason(l.ever_retrieved, verdict),
                                l.iteration + 1, calls, l.adversarial_calls, seen)
    /\ returned' = [returned EXCEPT ![e] = NoVerdict]
    /\ LoopStep
    /\ UNCHANGED pipeline

\* The adversarial call has ended: the edge stands only if still_grounded.
DecideChallenge(e) ==
    /\ loop[e].state = "Judging"
    /\ loop[e].challenged
    /\ pc[e] = "idle"
    /\ returned[e] # NoVerdict
    /\ LET l == loop[e]
       IN  IF returned[e].outcome = "OracleError"
           THEN JudgeError(e, l.judge_calls, l.adversarial_calls + 1)
           ELSE IF StillStands(returned[e].value)
           THEN Finish(e, "Accepted", None, l.iteration + 1, l.judge_calls,
                       l.adversarial_calls + 1, l.verdicts)
           ELSE Finish(e, "Rejected", "adversarial_rejection", l.iteration + 1,
                       l.judge_calls, l.adversarial_calls + 1, l.verdicts)
    /\ returned' = [returned EXCEPT ![e] = NoVerdict]
    /\ LoopStep
    /\ UNCHANGED pipeline

\* The pipeline was aborted: the call an edge is waiting for is cancelled at the
\* await, and its permit, if it holds one, goes back.
Cancelled(e) ==
    /\ pipeline = "aborted"
    /\ pc[e] \in {"evaluate_await", "adversarial_await"}
    /\ Return(e)
    /\ Release(e)
    /\ JudgeStep
    /\ UNCHANGED <<budget, ncalls, made, clean, last_summary, telVars, judgeVars>>

\* An aborted pipeline that drops its edges without a word
DroppedSilently(e) == FALSE

\* The pipeline was aborted: an edge still in its loop, with no call in flight and
\* no verdict left to decide on, is reported "cancelled".
Cancel(e) ==
    /\ pipeline = "aborted"
    /\ loop[e].state \in InLoop
    /\ pc[e] = "idle"
    /\ returned[e] = NoVerdict
    /\ Finish(e, "Rejected", "cancelled", loop[e].judge_calls, loop[e].judge_calls,
              loop[e].adversarial_calls, loop[e].verdicts)
    /\ LoopStep
    /\ UNCHANGED <<returned, pipeline>>

\* The surrounding pipeline is aborted while loops are in flight.
Abort ==
    /\ pipeline = "running"
    /\ \E e \in Threads : loop[e].state \in InLoop
    /\ pipeline' = "aborted"
    /\ LoopStep
    /\ UNCHANGED <<loop, returned>>

\* The outcome of a decided edge goes to the recorder, once:
\* record_verification_final(from_var, to_var, grounded, rejection_reason,
\* iterations_used). This is the first statement of its block; the second is the
\* method's own step.
Report(e) ==
    /\ loop[e].state \in Terminal
    /\ ~ loop[e].reported
    /\ LET o == loop[e].outcome
           a == [m |-> "record_verification_final", i |-> 1, grounded |-> o.grounded,
                 rejection_reason |-> o.rejection_reason,
                 iterations_used |-> o.iterations_used]
       IN  /\ Locked(e, "record_verification_final", 1, IF o.grounded THEN 1 ELSE 2,
                     "idle", At(a, 2))
           /\ verification' = FinalStatement(1, verification, a)
    /\ loop' = [loop EXCEPT ![e] = [@ EXCEPT !.reported = TRUE]]
    /\ UNCHANGED <<now, ev, snap, artifact, judgeVars, permits, config, pipeline,
                   moduleVars, run_start, run_start_wall, events, stage_starts, stage_durations,
                   llm, pywhyllm, edge_dropout, variable_count_raw,
                   variable_count_canonical, variable_count_added,
                   evidence_cache_size, var_id_resolve_misses>>

\* The steps of the judge call an edge has in flight.
InFlight(e) ==
    /\ pc[e] # "idle"
    /\ \/ evaluate(e)
       \/ evaluate_adversarial(e)
       \/ generate_structured_native(e)

(* ------------------------ module-level singleton ----------------------- *)

SingletonStep ==
    UNCHANGED <<now, lock, args, ev, snap, artifact, clean, last_summary, telVars,
                judgeVars, permits, loopVars, raw, result>>

Unchecked(i) == TRUE

\* `if _instance is None`
IsNone(i) == i = NoInstance

\* PipelineTelemetry(): a new object, which holds no event.
Construct ==
    /\ instances' = Append(instances, 0)
    /\ instance' = Len(instances) + 1

\* get_telemetry(): the test of _instance outside the lock, the test again under
\* _instance_lock with the construction and the assignment, the release of the lock,
\* and the return of what _instance then is.
get_telemetry(t) ==
    /\ SingletonStep
    /\ UNCHANGED through
    /\ \/ /\ CanCall(t)
          /\ Call(t, "get_telemetry")
          /\ Goto(t, IF IsNone(instance) THEN "get_telemetry_lock" ELSE "get_telemetry_return")
          /\ UNCHANGED <<instance, instance_lock, instances, handle>>
       \/ /\ pc[t] = "get_telemetry_lock"
          /\ instance_lock = 0
          /\ instance_lock' = t
          /\ Goto(t, "get_telemetry_locked")
          /\ UNCHANGED <<budget, ncalls, made, instance, instances, handle>>
       \/ /\ pc[t] = "get_telemetry_locked"
          /\ instance_lock = t
          /\ IF IsNone(instance) THEN Construct ELSE UNCHANGED <<instance, instances>>
          /\ instance_lock' = 0
          /\ Goto(t, "get_telemetry_return")
          /\ UNCHANGED <<budget, ncalls, made, handle>>
       \/ /\ pc[t] = "get_telemetry_return"
          /\ handle' = [handle EXCEPT ![t] = instance]
          /\ Goto(t, "idle")
          /\ UNCHANGED <<budget, ncalls, made, instance, instance_lock, instances>>

\* A caller records an event through the object get_telemetry() gave it.
RecordThrough(t) ==
    /\ CanCall(t)
    /\ handle[t] # NoInstance
    /\ Call(t, "record")
    /\ instances' = [instances EXCEPT ![handle[t]] = @ + 1]
    /\ through' = through + 1
    /\ SingletonStep
    /\ UNCHANGED <<pc, instance, instance_lock, handle>>

(* -------------------------- answer normalizer -------------------------- *)

\* Oracle text is the sequence of its characters. Each delimiter, and the word
\* "Option" with the blank after it, stands as one element of the sequence.
OpenTag == "<answer>"

CloseTag == "</answer>"

AnswerLetters == {"A", "B", "C"}

Alphabet == {OpenTag, CloseTag, "A", "B", "a", ".", " ", "Option "}

\* The element ends in, or begins with, a letter.
EndsInLetter(c) == c \in {"A", "B", "C", "a"}

StartsWithLetter(c) == c \in {"A", "B", "C", "a", "Option "}

\* Whitespace and punctuation, which cleaning strips from both ends of a span.
Strippable(c) == c \in {" ", "."}

RECURSIVE LStrip(_)
LStrip(s) == IF s # <<>> /\ Strippable(Head(s)) THEN LStrip(Tail(s)) ELSE s

RECURSIVE RStrip(_)
RStrip(s) ==
    IF s # <<>> /\ Strippable(s[Len(s)]) THEN RStrip(SubSeq(s, 1, Len(s) - 1)) ELSE s

\* The content of a span with whitespace and punctuation stripped, and without
\* the prefix "Option ".
Cleaned(content) ==
    LET c == RStrip(LStrip(content))
    IN  IF c # <<>> /\ Head(c) = "Option " THEN LStrip(Tail(c)) ELSE c

\* The letter a span carries: its cleaned content starts with a bare A, B or C, with
\* more text after it or none. "" when it carries none.
LetterOf(content) ==
    LET c == Cleaned(content)
    IN  IF c # <<>> /\ Head(c) \in AnswerLetters /\ (Len(c) = 1 \/ ~ StartsWithLetter(c[2]))
        THEN Head(c)
        ELSE ""

\* The opening delimiters that a closing one follows.
Opens(s) == {i \in 1 .. Len(s) : s[i] = OpenTag /\ \E j \in i + 1 .. Len(s) : s[j] = CloseTag}

HasSpan(s) == Opens(s) # {}

\* The span at position i: up to the nearest closing delimiter.
SpanAt(s, i) ==
    LET j == CHOOSE j \in i + 1 .. Len(s) :
                 s[j] = CloseTag /\ \A k \in i + 1 .. j - 1 : s[k] # CloseTag
    IN  SubSeq(s, i + 1, j - 1)

LastSpan(s) == SpanAt(s, CHOOSE i \in Opens(s) : \A k \in Opens(s) : k <= i)

\* Step 1 takes the first span, whatever spans follow it.
FirstSpan(s) == SpanAt(s, CHOOSE i \in Opens(s) : \A k \in Opens(s) : i <= k)

FullStopAfter(s, i) ==
    /\ i < Len(s)
    /\ s[i] \in AnswerLetters
    /\ s[i + 1] = "."

\* A standalone "A.", "B." or "C." at position i: the upper-case letter, a full stop
\* after it and no letter before it.
Standalone(s, i) ==
    /\ i < Len(s)
    /\ s[i] \in AnswerLetters
    /\ s[i + 1] = "."
    /\ (i = 1 \/ ~ EndsInLetter(s[i - 1]))

\* The tail of the text: its last TailWindow characters.
TailWindow == 4

InTail(s) == {i \in 1 .. Len(s) : i > Len(s) - TailWindow}

TailTokens(s) == {i \in InTail(s) : Standalone(s, i)}

AnyLetterInTail(s) ==
    LET found == {i \in InTail(s) : s[i] \in {"A", "B", "C", "a"}}
    IN  IF found = {} THEN ""
        ELSE LET c == s[CHOOSE i \in found : \A k \in found : k <= i]
             IN  IF c = "a" THEN "A" ELSE c

\* Step 2 scans the tail for a standalone token; the trailing one is taken.
TailLetter(s) ==
    IF TailTokens(s) = {} THEN ""
    ELSE s[CHOOSE i \in TailTokens(s) : \A k \in TailTokens(s) : k <= i]

\* _normalize_answer(raw): the letter of the first span if it carries one, else the
\* letter of a standalone token in the tail, else "".
normalize_answer(text) ==
    LET letter == IF HasSpan(text) THEN LetterOf(FirstSpan(text)) ELSE ""
    IN  IF letter # "" THEN letter ELSE TailLetter(text)

\* The bridge normalizes the text the oracle returned for a pair.
Normalize ==
    /\ result = None
    /\ result' = normalize_answer(raw)
    /\ UNCHANGED <<now, lock, pc, args, ev, snap, ncalls, artifact, ghostVars, telVars,
                   judgeVars, permits, loopVars, raw, instance, instance_lock,
                   instances, handle, through>>

(* --------------------------- specifications --------------------------- *)

\* Every method of the recorder, called from every thread in any interleaving.
Next ==
    \/ Tick
    \/ \E t \in Threads :
         \/ reset(t)
         \/ record(t)
         \/ stage_start(t)
         \/ stage_end(t)
         \/ record_llm_call(t)
         \/ record_llm_retry(t)
         \/ record_llm_error(t)
         \/ record_llm_fallback(t)
         \/ record_pywhyllm_pair(t)
         \/ record_verification_verdict(t)
         \/ record_verification_final(t)
         \/ record_var_id_resolve_miss(t)
         \/ summary(t)
         \/ dump(t)
         \/ print_summary(t)
         \/ evaluate(t)
         \/ evaluate_adversarial(t)
         \/ generate_structured_native(t)

Spec == Init /\ [][Next]_vars

\* The methods that change the recorder, called from every thread in any
\* interleaving, reset() included; the clock stands still.
Recorders ==
    \E t \in Threads :
        \/ reset(t)
        \/ record(t)
        \/ stage_start(t)
        \/ stage_end(t)
        \/ record_llm_call(t)
        \/ record_llm_retry(t)
        \/ record_llm_error(t)
        \/ record_llm_fallback(t)
        \/ record_pywhyllm_pair(t)
        \/ record_verification_verdict(t)
        \/ record_verification_final(t)
        \/ record_var_id_resolve_miss(t)

SpecRecorders == Init /\ [][Recorders]_vars

\* The methods that put an event in the log, against a running clock.
Timed ==
    \/ Tick
    \/ \E t \in Threads :
         \/ record(t)
         \/ stage_start(t)
         \/ stage_end(t)
         \/ record_llm_retry(t)
         \/ record_verification_verdict(t)

SpecTimed == Init /\ [][Timed]_vars

\* Number of calls in a behaviour of the readers' specification.
MaxReaderCalls == 2

\* The thread that reads the recorder in the readers' specification.
Reader == CHOOSE t \in Threads : \A u \in Threads : t <= u

\* One thread calls summary(), dump() and print_summary() while the other threads
\* record events, end stages and record verdicts and resolve misses.
Readers ==
    \/ summary(Reader)
    \/ dump(Reader)
    \/ print_summary(Reader)
    \/ \E t \in Threads \ {Reader} :
         \/ record(t)
         \/ stage_end(t)
         \/ record_verification_verdict(t)
         \/ record_var_id_resolve_miss(t)

SpecReaders == InitWith(MaxReaderCalls) /\ [][Readers]_vars

\* One thread calls summary() while the other threads record pairs and LLM calls.
Snapshots ==
    \/ summary(Reader)
    \/ \E t \in Threads \ {Reader} :
         \/ record_pywhyllm_pair(t)
         \/ record_llm_call(t)

SpecSnapshots == InitWith(MaxReaderCalls) /\ [][Snapshots]_vars

\* Number of calls in a behaviour of the summaries' specification.
MaxSummaryCalls == 3

\* One thread calls summary() between its calls of the recording methods, against a
\* running clock.
Summaries ==
    \/ Tick
    \/ summary(Reader)
    \/ record(Reader)
    \/ stage_start(Reader)
    \/ stage_end(Reader)
    \/ record_llm_call(Reader)
    \/ record_verification_final(Reader)

SpecSummaries == InitWith(MaxSummaryCalls) /\ [][Summaries]_vars

\* Number of judge calls in a behaviour of the judge's specification.
MaxJudgeCalls == 2

\* One verification loop calls the judge, one call after the other; the oracle
\* client answers.
Judging ==
    \/ evaluate(Reader)
    \/ evaluate_adversarial(Reader)
    \/ generate_structured_native(Reader)

SpecJudge == InitWith(MaxJudgeCalls) /\ [][Judging]_vars

\* Number of judge calls in a behaviour of the rounds' specification.
MaxRounds == 2

\* Verification rounds on all threads run the adversarial pass at once.
Rounds ==
    \E t \in Threads :
        \/ evaluate_adversarial(t)
        \/ generate_structured_native(t)

SpecRounds == InitWith(MaxRounds) /\ [][Rounds]_vars

\* Number of calls in a behaviour of the dumps' specification.
MaxDumpCalls == 3

\* One thread records, ends stages and calls summary() and dump(), against a running
\* clock: the run of test_telemetry_dump_and_summary and its like.
Dumps ==
    \/ Tick
    \/ summary(Reader)
    \/ dump(Reader)
    \/ record(Reader)
    \/ stage_start(Reader)
    \/ stage_end(Reader)
    \/ record_llm_call(Reader)

SpecDumps == InitWith(MaxDumpCalls) /\ [][Dumps]_vars

\* Number of calls in a behaviour of the runs' specification.
MaxRunCalls == 3

\* One thread records, calls reset() and records again, against a running clock.
Runs ==
    \/ Tick
    \/ reset(Reader)
    \/ record(Reader)
    \/ stage_start(Reader)
    \/ stage_end(Reader)
    \/ record_llm_call(Reader)
    \/ record_verification_final(Reader)
    \/ record_var_id_resolve_miss(Reader)

SpecRuns == InitWith(MaxRunCalls) /\ [][Runs]_vars

\* Number of record_pywhyllm_pair calls of a long run beyond the sample cap.
MaxOverCap == 2

\* The pair a long run records as its k-th call while it is below the cap: parsed
\* answers and normalized long ones in turn.
ScriptedPair(k) ==
    IF k % 2 = 1
    THEN [answer |-> "A", error |-> Absent, was_normalized |-> FALSE, raw_description |-> 12]
    ELSE [answer |-> "C", error |-> Absent, was_normalized |-> TRUE, raw_description |-> 600]

\* The pair arguments of a call frame.
PairOf(a) ==
    [answer |-> a.answer, error |-> a.error, was_normalized |-> a.was_normalized,
     raw_description |-> a.raw_description]

\* One thread records pairs up to the cap and past it: the calls before the last
\* one below the cap follow the script, the later ones take any pair.
LongRun ==
    /\ record_pywhyllm_pair(Reader)
    /\ (pc[Reader] = "idle" /\ pywhyllm.total_pairs + 1 < RawOutputCap)
            => PairOf(args'[Reader]) = ScriptedPair(pywhyllm.total_pairs + 1)

SpecLongRun == InitWith(RawOutputCap + MaxOverCap) /\ [][LongRun]_vars

\* A configuration read from the environment: CAUSEWAY_VERIFY_MAX_JUDGE_ITERATIONS
\* takes any integer, CAUSEWAY_VERIFY_LLM_SEMAPHORE_LIMIT any integer from 1.
Configure(max_judge_iterations, enable_adversarial_pass, llm_semaphore_limit) ==
    [VerificationConfig EXCEPT !.max_judge_iterations = max_judge_iterations,
                               !.enable_adversarial_pass = enable_adversarial_pass,
                               !.llm_semaphore_limit = llm_semaphore_limit]

\* No loop runs out of calls: an edge makes a call per round and one adversarial call.
LoopBudget == Cardinality(Threads) * (MaxIterations + 2)

\* The loop of one edge, under every configuration and every behaviour of the
\* retriever and the oracle.
LoopConfigs ==
    {Configure(m, a, 1) : m \in 0 .. MaxIterations, a \in BOOLEAN}

Verifying ==
    \/ Submit(Reader)
    \/ Retrieve(Reader)
    \/ Retriever(Reader)
    \/ Judge(Reader)
    \/ Challenge(Reader)
    \/ Decide(Reader)
    \/ DecideChallenge(Reader)
    \/ Cancel(Reader)
    \/ InFlight(Reader)

SpecLoop == (\E c \in LoopConfigs : InitConfigured(LoopBudget, c)) /\ [][Verifying]_vars

\* The loops of several edges at once, sharing one permit. To keep the
\* interleavings apart from the variety of one loop (SpecLoop has that), the
\* adversarial pass is off, the oracle's grounding verdicts are the strong one and
\* the one with neither reason nor refinement, and the retriever finds a chunk or
\* fails.
EdgesConfig == Configure(MaxIterations, FALSE, 1)

Answers ==
    {v \in Verdicts("VerificationVerdict") :
        \/ v.is_grounded /\ v.confidence >= StrongConfidence
        \/ ~ v.is_grounded /\ v.suggested_refinement_query = ""}

Step(e) ==
    \/ Retrieve(e)
    \/ Retriever(e) /\ (loop'[e].state = "Judging" => loop'[e].evidence # <<>>)
    \/ Judge(e)
    \/ Decide(e)
    \/ Cancel(e)
    \/ Cancelled(e)
    \/ InFlight(e) /\ (pc'[e] = "evaluate_return" => args'[e].verdict \in Answers)

Edges == \E e \in Threads : Submit(e) \/ Step(e)

SpecEdges == InitConfigured(LoopBudget, EdgesConfig) /\ [][Edges]_vars

\* The scheduler runs every task that can take a step, and every call to the
\* retriever or the oracle comes back: each step of a loop that stays possible is
\* taken.
FairEdges == SpecEdges /\ \A e \in Threads : WF_vars(Step(e))

\* The permits of the pool in the configurations of the model.
MaxPermits == 1

\* The loops of several edges competing for the permits, in a pipeline that is
\* not aborted: the retriever always finds a chunk.
PoolConfigs == {Configure(MaxIterations, FALSE, k) : k \in 1 .. MaxPermits}

PoolStep(e) ==
    \/ Retrieve(e)
    \/ Retriever(e) /\ loop'[e].state = "Judging" /\ loop'[e].evidence # <<>>
    \/ Judge(e)
    \/ Decide(e)
    \/ InFlight(e) /\ (pc'[e] = "evaluate_return" => args'[e].verdict \in Answers)

Pool == \E e \in Threads : Submit(e) \/ PoolStep(e)

SpecPool == (\E c \in PoolConfigs : InitConfigured(LoopBudget, c)) /\ [][Pool]_vars

\* Every task that can take a step is run, and every oracle call comes back.
FairPool == SpecPool /\ \A e \in Threads : WF_vars(PoolStep(e))

\* The loops of several edges in a pipeline that may be aborted at any moment,
\* each outcome reported to the recorder. The retriever finds a chunk and the
\* oracle answers with the strong verdict or fails; a call that is with the client
\* when the pipeline is aborted is cancelled, not answered.
AbortStep(e) ==
    \/ Retrieve(e)
    \/ Retriever(e) /\ loop'[e].state = "Judging" /\ loop'[e].evidence # <<>>
    \/ Judge(e)
    \/ Decide(e)
    \/ Cancel(e)
    \/ Cancelled(e)
    \/ /\ InFlight(e)
       /\ pc'[e] = "evaluate_return" =>
             args'[e].verdict \in {v \in Answers : v.is_grounded}
       /\ pipeline = "aborted" => pc[e] \notin {"evaluate_await", "adversarial_await"}
    \/ Report(e)
    \/ pc[e] = "record_verification_final" /\ record_verification_final(e)

Aborting == Abort \/ \E e \in Threads : Submit(e) \/ AbortStep(e)

\* An edge makes its judge calls and one call of the recorder.
AbortBudget == Cardinality(Threads) * (MaxIterations + 3)

SpecAbort == InitConfigured(AbortBudget, EdgesConfig) /\ [][Aborting]_vars

\* Every task that can take a step is run.
FairAbort == SpecAbort /\ \A e \in Threads : WF_vars(AbortStep(e))

\* The normalizer on every text of a bounded length: the texts of the fixtures of
\* TestAnswerTagParsing, each with any text of at most MaxText characters after it.
MaxText == 4

Fixtures ==
    { <<>>,
      <<OpenTag, CloseTag>>,
      <<OpenTag, "C", CloseTag>>,
      <<OpenTag, "Option ", "A", CloseTag>>,
      <<OpenTag, " ", "B", " ", "a", CloseTag>> }

Texts ==
    {f \o b : f \in Fixtures, b \in UNION {[1 .. n -> Alphabet] : n \in 0 .. MaxText}}

InitNormalizer ==
    /\ InitTelemetry(0, VerificationConfig)
    /\ raw \in Texts
    /\ result = None
    /\ instance = NoInstance
    /\ instance_lock = 0
    /\ instances = <<>>
    /\ handle = [t \in Threads |-> NoInstance]
    /\ through = 0

SpecNormalizer == InitNormalizer /\ [][Normalize]_vars

\* Threads that get the singleton, for the first time at once, and record through it.
MaxSingletonCalls == 5

Singleton == \E t \in Threads : get_telemetry(t) \/ RecordThrough(t)

SpecSingleton == InitWith(MaxSingletonCalls) /\ [][Singleton]_vars

\* Pairs recorded from every thread, and reset().
MaxPairCalls == 3

Pairs == \E t \in Threads : reset(t) \/ record_pywhyllm_pair(t)

SpecPairs == InitWith(MaxPairCalls) /\ [][Pairs]_vars

\* LLM calls and errors recorded from every thread, and reset().
MaxLlmCalls == 3

LlmCalls ==
    \E t \in Threads :
        \/ reset(t)
        \/ record_llm_call(t)
        \/ record_llm_error(t)
        \/ pc[t] # "idle" /\ record(t)

SpecLlm == InitWith(MaxLlmCalls) /\ [][LlmCalls]_vars

\* summary() reports the first 50 rejection reasons.
RejectionsReported == 50

\* The reason the k-th rejection of a long run is recorded with while the run is
\* below 50 rejections: none, the empty text and a reason in turn.
ScriptedReason(k) ==
    CASE k % 3 = 1 -> None
      [] k % 3 = 2 -> ""
      [] k % 3 = 0 -> "no_evidence"

\* One thread records outcomes up to 50 rejections and past them, and calls
\* summary(): below 50 the outcomes are rejections that follow the script, the
\* later ones are any outcome.
LongVerification ==
    \/ summary(Reader)
    \/ /\ record_verification_final(Reader)
       /\ (pc[Reader] = "idle" /\ verification.rejected_count + 1 < RejectionsReported)
              => /\ pc'[Reader] = "record_verification_final"
                 /\ args'[Reader].rejection_reason
                        = ScriptedReason(verification.rejected_count + 1)

SpecLongVerification ==
    InitWith(RejectionsReported + MaxOverCap + 1) /\ [][LongVerification]_vars

(* ----------------------------- properties ----------------------------- *)

AllIdle == \A t \in Threads : pc[t] = "idle"

NoneAt(label) == \A t \in Threads : pc[t] # label

\* The number of events in the log that carry the name.
CountEvents(name) == Cardinality({i \in 1 .. Len(events) : events[i].event = name})

\* The sum of the values of a dict.
RECURSIVE SumFun(_)
SumFun(f) ==
    IF DOMAIN f = {} THEN 0
    ELSE LET k == CHOOSE x \in DOMAIN f : TRUE
         IN  f[k] + SumFun([x \in DOMAIN f \ {k} |-> f[x]])

\* C1: in every state in which no record_pywhyllm_pair call is in progress,
\* pywhyllm.total_pairs is the sum of pairs_a, pairs_b, pairs_c, pairs_parse_fail and
\* pairs_exception, whatever the answers and errors and however the calls interleave
\* with reset() and the other methods.
PairTotalIsSumOfCategories ==
    NoneAt("record_pywhyllm_pair") =>
        pywhyllm.total_pairs =
            pywhyllm.pairs_a + pywhyllm.pairs_b + pywhyllm.pairs_c
            + pywhyllm.pairs_parse_fail + pywhyllm.pairs_exception

\* A pair that raised and a pair whose answer is none of A, B, C have been recorded,
\* and no call is in progress.
PairsOfTwoCategoriesRecorded ==
    /\ AllIdle
    /\ pywhyllm.total_pairs = 2
    /\ pywhyllm.pairs_exception = 1
    /\ pywhyllm.pairs_parse_fail = 1

\* A step that begins a call of record_verification_final.
FinalCallBegins == made'["record_verification_final"] = made["record_verification_final"] + 1

\* C2: while no reset() is in progress, grounded_count + rejected_count is the number
\* of record_verification_final calls made since the last reset(); and a call with
\* grounded = true adds 1 to grounded_count only, one with grounded = false adds 1 to
\* rejected_count only.
FinalCountsEveryCallOnce ==
    /\ [](NoneAt("reset") =>
            verification.grounded_count + verification.rejected_count
                = made["record_verification_final"])
    /\ [][FinalCallBegins =>
            IF \E t \in Threads : pc'[t] = "record_verification_final"
                                  /\ ~args'[t].grounded
            THEN /\ verification'.rejected_count = verification.rejected_count + 1
                 /\ verification'.grounded_count = verification.grounded_count
            ELSE /\ verification'.grounded_count = verification.grounded_count + 1
                 /\ verification'.rejected_count = verification.rejected_count]_vars

\* One edge has been recorded as grounded and one as rejected, and both calls have
\* returned.
GroundedAndRejectedRecorded ==
    /\ AllIdle
    /\ made["record_verification_final"] = 2
    /\ verification.grounded_count = 1
    /\ verification.rejected_count = 1

\* The events in the log that none of record(), stage_start() and stage_end() names.
DerivedEvents ==
    {i \in 1 .. Len(events) : events[i].event \notin {"custom", "stage_start", "stage_end"}}

\* C3: each call of one of the eight typed methods appends exactly one derived event,
\* so whenever no call is in progress the derived events in the log are as many as
\* the eight cumulative counters say, and each counter equals the number of its events.
EveryTypedCallLeavesOneEvent ==
    AllIdle =>
        /\ Cardinality(DerivedEvents) =
              llm.total_calls + llm.total_retries + llm.total_errors + llm.total_fallbacks
              + pywhyllm.total_pairs + verification.total_judge_calls
              + verification.grounded_count + verification.rejected_count
              + Len(var_id_resolve_misses)
        /\ llm.total_retries = CountEvents("retry")
        /\ llm.total_errors = CountEvents("error")
        /\ llm.total_fallbacks = CountEvents("native_to_prompt_fallback")
        /\ verification.total_judge_calls = CountEvents("judge_verdict")

\* C4: in every reachable state, a call that has updated its counter and not yet
\* returned included, total_retries, total_errors, total_fallbacks and
\* total_judge_calls equal the numbers of "retry", "error",
\* "native_to_prompt_fallback" and "judge_verdict" events in the log.
CountersNeverDivergeFromEvents ==
    /\ llm.total_retries = CountEvents("retry")
    /\ llm.total_errors = CountEvents("error")
    /\ llm.total_fallbacks = CountEvents("native_to_prompt_fallback")
    /\ verification.total_judge_calls = CountEvents("judge_verdict")

\* The thread is inside a `with self._lock:` block, between two of its statements.
InBlock(t) ==
    pc[t] \in {"reset", "record_llm_call", "record_llm_error", "record_pywhyllm_pair",
               "record_verification_verdict", "record_verification_final"}

\* C5: at most one thread is inside a block of a mutation method at a time, and it
\* holds the lock; and when every call has returned and reset() was never called, the
\* log has one entry per record() call and llm.total_calls, pywhyllm.total_pairs and
\* grounded_count + rejected_count each equal the number of calls made to their
\* method, with one latency sample per call.
NoCallIsLost ==
    /\ \A t \in Threads : InBlock(t) => lock = t
    /\ (AllIdle /\ made["reset"] = 0) =>
          /\ Len(events) = made["record"]
          /\ llm.total_calls = made["record_llm_call"]
          /\ Len(llm.latency_samples_ms) = made["record_llm_call"]
          /\ SumFun(llm.calls_by_model) = made["record_llm_call"]
          /\ pywhyllm.total_pairs = made["record_pywhyllm_pair"]
          /\ Len(pywhyllm.per_call_latency_ms) = made["record_pywhyllm_pair"]
          /\ verification.grounded_count + verification.rejected_count
                = made["record_verification_final"]

\* Two calls of record_llm_call, for two models, have returned and reset() was not
\* called.
CallsForTwoModelsReturned ==
    /\ AllIdle
    /\ made["reset"] = 0
    /\ made["record_llm_call"] = 2
    /\ Cardinality(DOMAIN llm.calls_by_model) = 2

\* C6: the dict a summary() call returns is the summary of one state of the recorder:
\* its pywhyllm_pairwise.total_pairs is the sum of edges_found_A, edges_found_B,
\* no_relationship_C, parse_failures and exceptions, and its llm_calls.total is the
\* sum of llm_calls.by_model.
SnapshotIsConsistent ==
    \A t \in Threads :
        pc[t] = "summary_return" =>
            LET d == SummaryDict(snap[t])
            IN  /\ d.pywhyllm_pairwise.total_pairs =
                      d.pywhyllm_pairwise.edges_found_A + d.pywhyllm_pairwise.edges_found_B
                      + d.pywhyllm_pairwise.no_relationship_C
                      + d.pywhyllm_pairwise.parse_failures + d.pywhyllm_pairwise.exceptions
                /\ d.llm_calls.total = SumFun(d.llm_calls.by_model)

\* C7: in every reachable state the log is ordered by monotonic timestamp: an event
\* is never followed by one with a smaller timestamp.
LogOrderedByTimestamp ==
    \A i, j \in 1 .. Len(events) : i < j => events[i].timestamp <= events[j].timestamp

\* A step of reset(): its thread is in reset() before the step or after it.
ResetStep == \E t \in Threads : pc[t] = "reset" \/ pc'[t] = "reset"

\* C8: every step that is not a step of reset() leaves the log as it was or with
\* events added at its end: no event is removed, reordered or modified, and the
\* length does not decrease.
LogIsAppendOnly ==
    [][ResetStep \/ (/\ Len(events) <= Len(events')
                     /\ SubSeq(events', 1, Len(events)) = events)]_vars

\* Two different events are in the log, the second appended behind the first.
LogGrewByAppends ==
    /\ Len(events) = 2
    /\ events[1] # events[2]
    /\ made["reset"] = 0

\* The labels of summary(), dump() and print_summary().
ReadLabels ==
    {"summary", "summary_return", "dump_raw", "dump_events", "dump_write",
     "print_len", "print_misses"}

SameButRunSeconds(d, e) ==
    [d EXCEPT !.total_run_seconds = 0] = [e EXCEPT !.total_run_seconds = 0]

\* A summary() call is about to return, no mutation was made since it began, and none
\* since an earlier summary() call returned.
SecondSummaryReturns(t) ==
    pc[t] = "summary_return" /\ clean[t] /\ last_summary # NoSummary

\* C10 as stated: a summary() call returns the same dict, field for field,
\* total_run_seconds included, as an earlier call with no mutation in between.
SummaryIsIdempotent ==
    \A t \in Threads : SecondSummaryReturns(t) => SummaryDict(snap[t]) = last_summary

\* C10 as amended: a summary() call returns a dict equal in every field other than
\* total_run_seconds to that of an earlier call with no mutation in between.
SummaryIsIdempotentButRunSeconds ==
    \A t \in Threads :
        SecondSummaryReturns(t) => SameButRunSeconds(SummaryDict(snap[t]), last_summary)

\* A second summary() returns after the clock advanced since the first, over a
\* recorder that holds a recorded LLM call.
SecondSummaryAfterTick ==
    \E t \in Threads :
        /\ SecondSummaryReturns(t)
        /\ SummaryDict(snap[t]).total_run_seconds # last_summary.total_run_seconds
        /\ last_summary.llm_calls.total = 1

\* The recorder's attributes as PipelineTelemetry() leaves them, with the two start
\* times given.
FreshRecorder(start, wall) ==
    <<start, wall, <<>>, EmptyDict, EmptyDict, LLMCallCounter, PyWhyLLMCounter,
      VerificationCounter, EdgeDropoutTracker, 0, 0, 0, 0, <<>>>>

\* C11: when reset() returns, whatever was recorded before, every attribute of the
\* recorder is as in a freshly constructed one (counters zero, log, dicts and lists
\* empty); and what is recorded from there on is what a fresh recorder would hold:
\* one event per record() call, counters equal to the calls made since the reset,
\* and no stage start or duration without its event.
ResetGivesFreshRecorder ==
    /\ [][\A t \in Threads :
            (pc[t] = "reset" /\ pc'[t] = "idle")
                => telVars' = FreshRecorder(run_start', run_start_wall')]_vars
    /\ []((AllIdle /\ made["reset"] >= 1) =>
            /\ Len(events) = made["record"]
            /\ llm.total_calls = made["record_llm_call"]
            /\ Len(llm.latency_samples_ms) = made["record_llm_call"]
            /\ verification.grounded_count + verification.rejected_count
                  = made["record_verification_final"]
            /\ Len(verification.rejection_reasons) = verification.rejected_count
            /\ Cardinality(DOMAIN stage_starts) <= CountEvents("stage_start")
            /\ Cardinality(DOMAIN stage_durations) <= CountEvents("stage_end"))

\* Something was recorded, reset() was called, and then one LLM call was recorded:
\* nothing of what was recorded first is left.
RecordedAfterResetOnly ==
    /\ AllIdle
    /\ ncalls = 3
    /\ made["reset"] = 1
    /\ made["record_llm_call"] = 1
    /\ llm.total_calls = 1
    /\ events = <<>>
    /\ stage_starts = EmptyDict
    /\ stage_durations = EmptyDict
    /\ verification = VerificationCounter
    /\ var_id_resolve_misses = <<>>

\* C12: reset() replaces the state atomically with respect to a concurrent typed
\* recorder: once both calls have returned, the recorder holds either the counter
\* update of the recorder call together with its event, or neither (a retry, error,
\* fallback or verdict counter equals the number of its events, and a stage has a
\* start time exactly when the log has its "stage_start" event).
ResetKeepsCounterWithEvent ==
    AllIdle =>
        /\ llm.total_retries = CountEvents("retry")
        /\ llm.total_errors = CountEvents("error")
        /\ llm.total_fallbacks = CountEvents("native_to_prompt_fallback")
        /\ verification.total_judge_calls = CountEvents("judge_verdict")
        /\ (stage_starts = EmptyDict) <=> (CountEvents("stage_start") = 0)

\* The parts of the recorder other than the event log and the stage durations.
OtherCounters ==
    <<run_start, run_start_wall, stage_starts, llm, pywhyllm, verification, edge_dropout,
      variable_count_raw, variable_count_canonical, variable_count_added,
      evidence_cache_size, var_id_resolve_misses>>

\* No stage_start has been recorded since the last reset(): the log, emptied by
\* reset(), holds no "stage_start" event (the calls of the run follow one another).
NeverStarted == CountEvents("stage_start") = 0

\* Thread t is in a stage_end call: in the call's own record() or about to append.
InStageEnd(t) ==
    \/ pc[t] = "record" /\ args[t].event = "stage_end"
    \/ pc[t] = "record_append" /\ ev[t].event = "stage_end"

\* C13: stage_end(s) with no stage_start(s) since the last reset does not fail; its
\* block sets stage_durations[s] to 0 and changes nothing else, and the call then
\* appends exactly one "stage_end" event, with elapsed_seconds 0, to the log, again
\* changing nothing else, and returns.
StageEndWithoutStart ==
    /\ [][\A t \in Threads :
            NeverStarted =>
                /\ (pc[t] = "idle" /\ InStageEnd(t)') =>
                        /\ stage_durations' = DictSet(stage_durations, args'[t].stage, 0)
                        /\ args'[t].data = [elapsed_seconds |-> 0]
                        /\ UNCHANGED <<events, OtherCounters>>
                /\ (InStageEnd(t) /\ pc[t] = "record") =>
                        /\ pc'[t] = "record_append" => ev'[t].data = [elapsed_seconds |-> 0]
                        /\ UNCHANGED telVars
                /\ (InStageEnd(t) /\ pc[t] = "record_append" /\ pc'[t] # pc[t]) =>
                        /\ pc'[t] = "idle"
                        /\ Len(events') = Len(events) + 1
                        /\ SubSeq(events', 1, Len(events)) = events
                        /\ events'[Len(events')].event = "stage_end"
                        /\ events'[Len(events')].stage = ev[t].stage
                        /\ events'[Len(events')].data = [elapsed_seconds |-> 0]
                        /\ UNCHANGED <<stage_durations, OtherCounters>>]_vars
    /\ [](\A t \in Threads : (NeverStarted /\ InStageEnd(t)) => ENABLED record(t))

\* A stage_start, then reset(), then stage_end of the same stage after the clock has
\* moved: the stage has duration 0 and the log holds the one "stage_end" event.
StageEndedAfterReset ==
    /\ AllIdle /\ ncalls = 3 /\ made["reset"] = 1 /\ run_start > 0 /\ now > run_start
    /\ stage_starts = EmptyDict
    /\ stage_durations = [s \in {"draft"} |-> 0]
    /\ Len(events) = 1 /\ events[1].event = "stage_end"
    /\ events[1].timestamp > run_start
    /\ events[1].data = [elapsed_seconds |-> 0]

\* Thread t runs the last statement of record_pywhyllm_pair's block in this step.
PairCallEnds(t) ==
    pc[t] = "record_pywhyllm_pair" /\ args[t].i = 5 /\ pc'[t] = "idle"

DumpRoundTrip ==
    [][\A t \in Threads :
        (pc[t] = "dump_write" /\ pc'[t] = "idle") =>
            LET reloaded == JsonLoad(JsonDump(artifact'))
            IN  /\ reloaded.summary.llm_calls.total = llm.total_calls
                /\ Len(reloaded.events) = Len(events)
                /\ \A i \in 1 .. Len(events) :
                      /\ reloaded.events[i].stage = events[i].stage
                      /\ reloaded.events[i].event = events[i].event
                      /\ reloaded.events[i].elapsed_since_start
                            = events[i].timestamp - run_start]_vars

\* A run has been dumped: one LLM call, then a stage ended after the clock moved;
\* the document holds the call and the one event, with its time since run_start.
DumpedCallAndStage ==
    /\ AllIdle /\ artifact # NoSummary
    /\ llm.total_calls = 1
    /\ Len(events) = 1 /\ events[1].event = "stage_end" /\ events[1].timestamp > 0
    /\ Len(artifact.events) = 1
    /\ artifact.events[1].elapsed_since_start = events[1].timestamp
    /\ artifact.summary.llm_calls.total = 1

\* C16: once every judge call has returned, total_judge_calls is the number of
\* evaluate calls made and the log holds as many "judge_verdict" events;
\* total_adversarial_calls is the number of evaluate_adversarial calls made, and the
\* log holds one event per judge call in all.
EveryJudgeCallRecorded ==
    AllIdle =>
        /\ verification.total_judge_calls = made["evaluate"]
        /\ CountEvents("judge_verdict") = made["evaluate"]
        /\ verification.total_adversarial_calls = made["evaluate_adversarial"]
        /\ Len(events) = made["evaluate"] + made["evaluate_adversarial"]

\* C17: once N concurrent evaluate_adversarial calls have returned,
\* total_adversarial_calls is N.
EveryAdversarialCallCounted ==
    AllIdle => verification.total_adversarial_calls = made["evaluate_adversarial"]

\* The requests the oracle client was sent for the call.
RequestsOf(id) == {i \in 1 .. Len(oracle) : oracle[i].call = id}

\* Thread t is in a judge call that has sent its request.
Awaiting(t) == pc[t] \in {"evaluate_await", "adversarial_await"}

Returning(t) == pc[t] \in {"evaluate_return", "adversarial_return"}

\* C18: a call of evaluate or evaluate_adversarial sends exactly one request to the
\* oracle client; when the client returns a verdict the call hands its caller that
\* verdict, unchanged; when the client fails the call ends with the client's error,
\* having sent nothing more and handed back no verdict.
OneRoundTripPerCall ==
    /\ [](\A t \in Threads :
            /\ (Awaiting(t) \/ Returning(t)) => Cardinality(RequestsOf(args[t].call)) = 1
            /\ (pc[t] = "idle" /\ returned[t] # NoVerdict)
                    => Cardinality(RequestsOf(returned[t].call)) = 1)
    /\ [](AllIdle => Len(oracle) = made["evaluate"] + made["evaluate_adversarial"])
    /\ [][\A t \in Threads :
            /\ (Awaiting(t) /\ Returning(t)') =>
                    /\ args'[t].verdict \in Verdicts(oracle[CHOOSE i \in RequestsOf(args[t].call) : TRUE].output_schema)
                    /\ oracle' = oracle
            /\ (Returning(t) /\ pc'[t] # pc[t]) =>
                    /\ pc'[t] = "idle"
                    /\ returned'[t].outcome = "verdict"
                    /\ returned'[t].call = args[t].call
                    /\ returned'[t].value = args[t].verdict
                    /\ oracle' = oracle
            /\ (Awaiting(t) /\ pc'[t] # pc[t] /\ ~Returning(t)') =>
                    /\ pc'[t] = "idle"
                    /\ returned'[t] = [outcome |-> "OracleError", call |-> args[t].call]
                    /\ oracle' = oracle]_vars

\* An evaluate call has returned the oracle's verdict and the evaluate_adversarial
\* call after it has failed with the oracle: two requests in all.
VerdictThenOracleError ==
    /\ AllIdle /\ ncalls = 2
    /\ made["evaluate"] = 1 /\ made["evaluate_adversarial"] = 1
    /\ Len(oracle) = 2
    /\ oracle[1].output_schema = "VerificationVerdict"
    /\ oracle[2].output_schema = "AdversarialVerdict"
    /\ returned[Reader] = [outcome |-> "OracleError", call |-> 2]

\* What the caller passed: the evidence list of evaluate, the quote of
\* evaluate_adversarial.
Passed(g) == IF g.m = "evaluate" THEN g.evidence_chunks ELSE g.supporting_quote

\* The request a call with the arguments g sends, whatever was called before.
RequestFor(id, g) ==
    IF g.m = "evaluate"
    THEN Request(id, "llm_client",
                 GroundingPrompt(g.from_var, g.to_var, g.mechanism,
                                 FormatEvidence(g.evidence_chunks)),
                 "VerificationVerdict", "_GROUNDING_SYSTEM", "gemini-2.5-pro")
    ELSE Request(id, "llm_client",
                 AdversarialPrompt(g.from_var, g.to_var, g.mechanism, g.supporting_quote),
                 "AdversarialVerdict", "_ADVERSARIAL_SYSTEM", "gemini-2.5-pro")

\* C19: no step of evaluate or evaluate_adversarial changes the judge's fields or an
\* object the caller passed (the edge's strings, the evidence list and its chunks,
\* the quote), and the request a call sends is determined by its arguments alone:
\* it is the same whatever calls came before.
JudgeIsStateless ==
    /\ [][\A t \in Threads :
            /\ judge' = judge
            /\ IF pc[t] = "idle" /\ pc'[t] # "idle"
               THEN Passed(given'[t]) = args'[t].passed
               ELSE given'[t] = given[t]]_vars
    /\ [](\A i \in 1 .. Len(oracle) :
            \A t \in Threads :
                (given[t] # NoArgs /\ pc[t] # "idle" /\ args[t].call = oracle[i].call)
                    => oracle[i] = RequestFor(oracle[i].call, given[t]))
    /\ [](\A i, k \in 1 .. Len(oracle) :
            oracle[i].output_schema = oracle[k].output_schema
                => [oracle[i] EXCEPT !.call = 0, !.prompt = 0]
                       = [oracle[k] EXCEPT !.call = 0, !.prompt = 0])

\* Two evaluate calls with the same two chunks have been made, the first answered
\* with a verdict: the caller still holds the list it passed, and the second call
\* sent the prompt the first one sent.
SameEvidenceJudgedTwice ==
    /\ AllIdle /\ ncalls = 2 /\ made["evaluate"] = 2
    /\ Len(given[Reader].evidence_chunks) = 2
    /\ Len(oracle) = 2
    /\ oracle[1].prompt = oracle[2].prompt
    /\ returned[Reader].outcome = "verdict"

\* The places of the block at which a numbered entry begins.
Headers(block) == {k \in 1 .. Len(block) : block[k] = Lit("### Chunk ")}

\* C20: evaluate with an empty evidence list reaches the oracle, and the evidence
\* block of its prompt is the placeholder "(no evidence retrieved)"; with a non-empty
\* list the block is not the placeholder and holds exactly one numbered entry per
\* chunk: the i-th entry carries the number i, counted from 1, and the source and
\* the content of the i-th chunk of the list.
EvidenceBlockNumbersChunks ==
    [][\A t \in Threads :
        (pc[t] = "idle" /\ pc'[t] = "evaluate_await") =>
            LET chunks == args'[t].passed
                block == oracle'[Len(oracle')].prompt.evidence_block
                heads == Headers(block)
                Rank(k) == Cardinality({h \in heads : h <= k})
                After(k) == {h \in heads : h > k}
                End(k) == IF After(k) = {} THEN Len(block)
                          ELSE (CHOOSE h \in After(k) : \A g \in After(k) : h <= g) - 2
            IN  /\ Len(oracle') = Len(oracle) + 1
                /\ oracle'[Len(oracle')].call = args'[t].call
                /\ chunks = <<>> => block = <<Lit("(no evidence retrieved)")>>
                /\ chunks # <<>> =>
                      /\ block # <<Lit("(no evidence retrieved)")>>
                      /\ block[1] = Lit("### Chunk ")
                      /\ Cardinality(heads) = Len(chunks)
                      /\ \A k \in heads :
                            /\ block[k + 1].piece = "int"
                            /\ ParseDigits(block[k + 1].digits) = Rank(k)
                            /\ block[k + 3].chars \in
                                  {chunks[Rank(k)].source.doc_title,
                                   chunks[Rank(k)].source.doc_id}
                            /\ block[End(k) - 1].chars = chunks[Rank(k)].content]_vars

\* An evaluate call with no evidence and one with two chunks have been sent: the
\* first prompt carries the placeholder, the second a block of two entries whose
\* first chunk has the placeholder's words as its content.
JudgedWithoutAndWithEvidence ==
    /\ AllIdle /\ ncalls = 2 /\ made["evaluate"] = 2 /\ Len(oracle) = 2
    /\ oracle[1].prompt.evidence_block = Placeholder
    /\ Len(given[Reader].evidence_chunks) = 2
    /\ given[Reader].evidence_chunks[1].content = "(no evidence retrieved)"
    /\ given[Reader].evidence_chunks[2].source.doc_title = "Plan"
    /\ Cardinality(Headers(oracle[2].prompt.evidence_block)) = 2

(* ---- the verification loop: one edge (SpecLoop) ---- *)

\* The edge the one-edge specification verifies.
Edge == loop[Reader]

\* C21. Whatever the retriever and the oracle do, the loop of an edge makes at
\* most max_judge_iterations evaluate calls and at most one adversarial call, and
\* no adversarial call when enable_adversarial_pass is false.
LoopIsBounded ==
    /\ made["evaluate"] <= config.max_judge_iterations
    /\ made["evaluate_adversarial"] <= 1
    /\ ~ config.enable_adversarial_pass => made["evaluate_adversarial"] = 0

\* C22. Every terminal outcome has 1 <= iterations_used <= max_judge_iterations,
\* and iterations_used is the number of judge calls made for the edge.
IterationsUsedCountsJudgeCalls ==
    Edge.state \in Terminal =>
        /\ 1 <= Edge.outcome.iterations_used
        /\ Edge.outcome.iterations_used <= config.max_judge_iterations
        /\ Edge.outcome.iterations_used = made["evaluate"]

\* The verdict the edge's loop received last, before and after a step.
LastVerdict == Edge.verdicts[Len(Edge.verdicts)]

LastVerdictAfter == loop'[Reader].verdicts[Len(loop'[Reader].verdicts)]

\* C23. An edge becomes Accepted only on a grounding verdict with is_grounded =
\* true and confidence >= grounding_confidence_threshold: the step that accepts
\* it directly is the decision on such a verdict, and an accepted edge has one
\* among the verdicts it received.
AcceptedOnlyOverThreshold ==
    [][(Edge.state # "Accepted" /\ loop'[Reader].state = "Accepted") =>
          /\ loop'[Reader].outcome.grounded
          /\ loop'[Reader].verdicts # <<>>
          /\ LastVerdictAfter.is_grounded
          /\ LastVerdictAfter.confidence >= config.grounding_confidence_threshold
          /\ ~ Edge.challenged =>
                /\ returned[Reader].outcome = "verdict"
                /\ returned[Reader].value = LastVerdictAfter]_vars

\* An edge was refined after a verdict that was not grounded and then accepted on
\* a verdict whose confidence is exactly the threshold.
AcceptedAtThreshold ==
    /\ Edge.state = "Accepted" /\ Edge.outcome.grounded
    /\ Len(Edge.verdicts) = 2
    /\ ~ Edge.verdicts[1].is_grounded
    /\ LastVerdict.confidence = config.grounding_confidence_threshold

\* C24. The adversarial pass begins only when it is enabled and the grounding
\* verdict just received met the threshold; once its verdict is back, the edge is
\* Accepted if still_grounded and Rejected with "adversarial_rejection" if not,
\* so an edge the pass ran for is grounded only with still_grounded = true.
AdversarialPassDecides ==
    [][/\ made'["evaluate_adversarial"] > made["evaluate_adversarial"] =>
             /\ config.enable_adversarial_pass
             /\ Edge.verdicts # <<>>
             /\ LastVerdict.is_grounded
             /\ LastVerdict.confidence >= config.grounding_confidence_threshold
       /\ (Edge.challenged /\ pc[Reader] = "idle" /\ loop' # loop
             /\ returned[Reader].outcome = "verdict") =>
             IF returned[Reader].value.still_grounded
             THEN /\ loop'[Reader].state = "Accepted"
                  /\ loop'[Reader].outcome.grounded
             ELSE /\ loop'[Reader].state = "Rejected"
                  /\ ~ loop'[Reader].outcome.grounded
                  /\ loop'[Reader].outcome.rejection_reason = "adversarial_rejection"
       /\ (made["evaluate_adversarial"] > 0 /\ Edge.state # "Accepted"
             /\ loop'[Reader].state = "Accepted") =>
             /\ returned[Reader].outcome = "verdict"
             /\ returned[Reader].value.still_grounded]_vars

\* An edge was refined once, then met the threshold with a strong verdict, and the
\* adversarial pass rejected it.
RejectedByAdversarialPass ==
    /\ Edge.state = "Rejected"
    /\ Edge.outcome = Outcome(FALSE, "adversarial_rejection", 2)
    /\ made["evaluate"] = 2 /\ made["evaluate_adversarial"] = 1
    /\ Edge.adversarial_calls = 1
    /\ LastVerdict.is_grounded

(* ---- the verification loop: several edges (SpecEdges, FairEdges) ---- *)

\* An edge's outcome is final: a decided edge is not decided again.
DecidedOnce ==
    [][\A e \in Threads : loop[e].state \in Terminal => loop'[e] = loop[e]]_vars

\* Every edge in the loop comes to a terminal state.
EveryEdgeEnds ==
    \A e \in Threads : (loop[e].state \in InLoop) ~> (loop[e].state \in Terminal)

BreakDue ==
    /\ Edge.state = "Judging" /\ ~ Edge.challenged
    /\ pc[Reader] = "idle"
    /\ returned[Reader].outcome = "verdict"
    /\ ~ (/\ returned[Reader].value.is_grounded
          /\ returned[Reader].value.confidence >= config.grounding_confidence_threshold)
    /\ returned[Reader].value.suggested_refinement_query \in {None, "", Edge.last_query}

\* C26. Duplicate-query break: the next step after such a verdict makes the edge
\* Rejected, with no retrieval and no judge call in between and whatever number
\* of iterations remains; the reason is "no_evidence" if no evidence was ever
\* retrieved and the judge's rejection_reason otherwise, never
\* "exhausted_iterations".
DuplicateQueryBreak ==
    [][BreakDue =>
          /\ loop'[Reader].state = "Rejected"
          /\ ~ loop'[Reader].outcome.grounded
          /\ loop'[Reader].outcome.rejection_reason =
                IF Edge.ever_retrieved THEN returned[Reader].value.rejection_reason
                ELSE "no_evidence"
          /\ loop'[Reader].outcome.rejection_reason # "exhausted_iterations"
          /\ loop'[Reader].queries = Edge.queries
          /\ made' = made]_vars

\* With two iterations allowed, the first verdict on retrieved evidence suggested
\* the query just used: the edge is Rejected with the judge's reason after one
\* retrieval and one judge call.
BrokeOnRepeatedQuery ==
    /\ config.max_judge_iterations = 2
    /\ Edge.state = "Rejected"
    /\ Edge.outcome = Outcome(FALSE, "correlation only", 1)
    /\ Edge.ever_retrieved
    /\ LastVerdict.suggested_refinement_query = InitialQuery
    /\ Edge.queries = <<InitialQuery>>
    /\ made["evaluate"] = 1

\* The edge has been judged max_judge_iterations times and no verdict was grounded.
NeverGroundedThroughMax ==
    /\ Len(Edge.verdicts) >= 1
    /\ Len(Edge.verdicts) = config.max_judge_iterations
    /\ \A i \in 1 .. Len(Edge.verdicts) : ~ Edge.verdicts[i].is_grounded

\* Every verdict named a query other than the one its round was retrieved with.
AlwaysRefined ==
    \A i \in 1 .. Len(Edge.verdicts) :
        Edge.verdicts[i].suggested_refinement_query \notin {None, "", Edge.queries[i]}

ExhaustedOutcome ==
    /\ Edge.state = "Rejected"
    /\ Edge.outcome = Outcome(FALSE, "exhausted_iterations", config.max_judge_iterations)

\* C27 as stated. An edge whose every round through max_judge_iterations returns
\* is_grounded = false ends Rejected with "exhausted_iterations" and
\* iterations_used = max_judge_iterations.
NeverGroundedIsExhausted ==
    NeverGroundedThroughMax => ExhaustedOutcome

\* C27, amended. So it is when every one of those verdicts also suggests a new
\* refinement query; the edge is then Rejected as soon as the last verdict is in.
NeverGroundedAlwaysRefinedIsExhausted ==
    (NeverGroundedThroughMax /\ AlwaysRefined) => ExhaustedOutcome

\* Two rounds allowed, two verdicts not grounded, each with a new query: the edge
\* is Rejected as exhausted after two judge calls, the second retrieval made with
\* the first verdict's query.
ExhaustedAfterTwoRounds ==
    /\ config.max_judge_iterations = 2
    /\ NeverGroundedThroughMax /\ AlwaysRefined
    /\ Edge.outcome = Outcome(FALSE, "exhausted_iterations", 2)
    /\ made["evaluate"] = 2
    /\ Len(Edge.queries) = 2

\* The edge has been judged n times, n within max_judge_iterations: the verdicts
\* before the last were not grounded and each named a query other than the one
\* just used, and the last is grounded with confidence at or above the threshold.
GroundedInRound(n) ==
    /\ n >= 1 /\ n <= config.max_judge_iterations
    /\ Len(Edge.verdicts) = n
    /\ \A k \in 1 .. n - 1 :
          /\ ~ Edge.verdicts[k].is_grounded
          /\ Edge.verdicts[k].suggested_refinement_query \notin {None, "", Edge.queries[k]}
    /\ Edge.verdicts[n].is_grounded
    /\ Edge.verdicts[n].confidence >= config.grounding_confidence_threshold

\* C28. A refinement round counts as an iteration: with the adversarial pass
\* disabled, an edge grounded in round n after n - 1 refinements is Accepted with
\* iterations_used = n; and every round after the first retrieves with the query
\* the verdict before it suggested.
RefinementRoundsCount ==
    /\ \A n \in 1 .. MaxIterations + 1 :
          (~ config.enable_adversarial_pass /\ GroundedInRound(n)) =>
              /\ Edge.state = "Accepted"
              /\ Edge.outcome = Outcome(TRUE, None, n)
              /\ made["evaluate"] = n
    /\ Edge.queries # <<>> => Edge.queries[1] = InitialQuery
    /\ \A k \in 2 .. Len(Edge.queries) :
          Edge.queries[k] = Edge.verdicts[k - 1].suggested_refinement_query

\* The first verdict was not grounded and suggested "price elasticity"; the second
\* round retrieved with it and its verdict was grounded: Accepted, two iterations.
AcceptedInSecondRound ==
    /\ ~ config.enable_adversarial_pass
    /\ GroundedInRound(2)
    /\ Edge.queries = <<InitialQuery, "price elasticity">>
    /\ Edge.outcome = Outcome(TRUE, None, 2)

Calling(t) == pc[t] \in {"evaluate_await", "adversarial_await"}

\* C30. However many edges run at once, the oracle calls in flight, which are
\* the permits held, never exceed llm_semaphore_limit; a permit is held only
\* while its call is in flight, so it is back in the pool when the call has
\* returned or failed; and every caller waiting for a permit gets one.
PermitPool ==
    /\ [](Cardinality(permits) <= config.llm_semaphore_limit)
    /\ [](\A t \in Threads : t \in permits => Calling(t))
    /\ \A t \in Threads : (Calling(t) /\ t \notin permits) ~> (t \in permits)

\* Every permit is out, each held by a caller whose request is with the client,
\* and a further caller has sent its request and waits for a permit.
PermitsOutAndAwaited ==
    /\ Cardinality(permits) = config.llm_semaphore_limit
    /\ \A t \in permits : Calling(t)
    /\ \E t \in Threads : Calling(t) /\ t \notin permits
    /\ Len(oracle) = Cardinality(permits) + 1

(* ---- an aborted pipeline (SpecAbort, FairAbort) ---- *)

\* The edges that have entered the verification loop.
Submitted == {e \in Threads : loop[e].state # "Unsubmitted"}

\* Every loop is terminal and its outcome has reached the recorder.
AllReported ==
    /\ AllIdle
    /\ \A e \in Submitted : loop[e].state \in Terminal /\ loop[e].reported

\* C31. No submitted edge is dropped, aborted pipeline or not: every edge in the
\* loop comes to a terminal state and keeps the one outcome it got there; after an
\* abort an edge with no verdict in hand ends Rejected "cancelled"; and once all
\* loops are terminal and reported, the outcomes counted (grounded + rejected)
\* are as many as the edges submitted.
NoEdgeIsDropped ==
    /\ \A e \in Threads : (loop[e].state \in InLoop) ~> (loop[e].state \in Terminal)
    /\ [][\A e \in Threads :
            /\ loop[e].state \in Terminal =>
                  /\ loop'[e].state = loop[e].state
                  /\ loop'[e].outcome = loop[e].outcome
            /\ (pipeline = "aborted" /\ returned[e] = NoVerdict
                  /\ loop[e].state \in InLoop /\ loop'[e].state \in Terminal) =>
                  loop'[e].outcome.rejection_reason = "cancelled"
            /\ loop'[e].state = "Accepted" => loop'[e].outcome.grounded
            /\ loop'[e].state = "Rejected" => ~ loop'[e].outcome.grounded]_vars
    /\ [](AllReported =>
            /\ verification.grounded_count + verification.rejected_count
                  = Cardinality(Submitted)
            /\ verification.grounded_count
                  = Cardinality({e \in Submitted : loop[e].state = "Accepted"})
            /\ Len(verification.rejection_reasons) = verification.rejected_count)

\* The pipeline was aborted with an edge accepted and another still in its loop:
\* the second is reported as cancelled, and the recorder counts one grounded edge
\* and one rejected edge with reason "cancelled".
CancelledEdgeReported ==
    /\ pipeline = "aborted"
    /\ AllReported
    /\ Cardinality(Submitted) = 2
    /\ \E e \in Submitted : loop[e].state = "Accepted"
    /\ verification.grounded_count = 1 /\ verification.rejected_count = 1
    /\ verification.rejection_reasons[1].reason = "cancelled"

(* ---- the answer normalizer (SpecNormalizer) ---- *)

Normalized == result # None

\* Some span of the text carries a letter.
SomeSpanCarries == \E i \in Opens(raw) : LetterOf(SpanAt(raw, i)) # ""

\* The positions of the standalone tokens "A.", "B.", "C." in the tail of the text.
StandaloneInTail ==
    {i \in 1 .. Len(raw) - 1 :
        /\ i > Len(raw) - TailWindow
        /\ raw[i] \in {"A", "B", "C"}
        /\ raw[i + 1] = "."
        /\ (i = 1 \/ raw[i - 1] \notin {"A", "B", "C", "a"})}

\* C32: the normalizer returns for every text, and what it returns is "A", "B", "C"
\* or ""; it is "" for the empty text and for a text in which no span carries a
\* letter and whose tail has no standalone "A.", "B." or "C.".
NormalizerIsTotal ==
    Normalized =>
        /\ result \in {"A", "B", "C", ""}
        /\ raw = <<>> => result = ""
        /\ (~ SomeSpanCarries /\ StandaloneInTail = {}) => result = ""

\* An opening delimiter that nothing closes, letters inside words and a lower-case
\* "a." : the normalizer has returned "".
UnparseableGivesEmpty ==
    /\ Normalized
    /\ result = ""
    /\ ~ HasSpan(raw)
    /\ \E i \in 1 .. Len(raw) : raw[i] = OpenTag
    /\ \E i \in 1 .. Len(raw) - 1 : raw[i] = "a" /\ raw[i + 1] = "."
    /\ \E i \in 1 .. Len(raw) : raw[i] = "A"

\* The content between the first opening delimiter and the first closing one after
\* it, when the text has both; <<>> otherwise.
FirstSpanContent ==
    LET opens == {i \in 1 .. Len(raw) : raw[i] = OpenTag}
        i == CHOOSE i \in opens : \A k \in opens : i <= k
        closes == {j \in 1 .. Len(raw) : raw[j] = CloseTag /\ j > i}
        j == CHOOSE j \in closes : \A k \in closes : j <= k
    IN  IF opens = {} THEN <<>>
        ELSE IF closes = {} THEN <<>> ELSE SubSeq(raw, i + 1, j - 1)

\* C33: when the first span of the text carries a letter, the normalizer returns
\* that letter, whatever the later spans carry and whatever standalone token the
\* tail holds.
FirstSpanDecides ==
    (Normalized /\ LetterOf(FirstSpanContent) # "") => result = LetterOf(FirstSpanContent)

\* The first span holds "Option A", a later span holds "B." and that "B." stands
\* alone in the tail: the normalizer has returned "A".
FirstOfTwoSpansReturned ==
    /\ Normalized
    /\ raw = <<OpenTag, "Option ", "A", CloseTag, OpenTag, "B", ".", CloseTag>>
    /\ \E i \in StandaloneInTail : raw[i] = "B"
    /\ result = "A"

\* C34 as claimed: a text with no span returns the letter of every standalone token
\* its tail holds.
EveryTailTokenIsReturned ==
    (Normalized /\ ~ HasSpan(raw)) => \A i \in StandaloneInTail : result = raw[i]

\* C34: a text with no span whose tail holds standalone tokens returns the letter of
\* one of them, so the letter X when they all have the letter X, and a text with no
\* span returns no letter but that of a standalone token of its tail; a text whose
\* first span carries a letter returns that letter, the tail left unscanned.
TailTokenIsReturned ==
    Normalized =>
        /\ (~ HasSpan(raw) /\ StandaloneInTail # {}) =>
               \E i \in StandaloneInTail : result = raw[i]
        /\ (~ HasSpan(raw) /\ StandaloneInTail = {}) => result = ""
        /\ (HasSpan(raw) /\ LetterOf(FirstSpan(raw)) # "") =>
               result = LetterOf(FirstSpan(raw))

\* No span, a standalone "A." and after it a lower-case "a." in the tail: the
\* normalizer has returned "A".
StandaloneTokenReturned ==
    /\ Normalized
    /\ raw = <<"A", ".", "a", ".">>
    /\ result = "A"

(* ---- the module-level singleton (SpecSingleton) ---- *)

\* C35: get_telemetry() hands every caller the same PipelineTelemetry: at most one
\* is ever constructed, also when several threads make the first call at once,
\* _instance once set is never set again, and the events recorded through any handle
\* are all held by the object every handle refers to.
OneTelemetryInstance ==
    /\ [](Len(instances) <= 1)
    /\ [](\A t \in Threads :
            handle[t] # NoInstance =>
                /\ handle[t] = instance
                /\ instances[handle[t]] = through)
    /\ [][instance # NoInstance => instance' = instance]_vars

\* Two threads found _instance None in their first calls: one has constructed the
\* object, got it and recorded through it, while the other is still waiting for
\* _instance_lock.
FirstCallsRaced ==
    \E t, u \in Threads :
        /\ t # u
        /\ pc[t] = "get_telemetry_lock"
        /\ handle[u] = instance
        /\ instance # NoInstance
        /\ through > 0

(* ---- pairwise answers (SpecPairs) ---- *)

\* Thread t begins a call of record_pywhyllm_pair in this step, which runs the first
\* statement of its block.
PairCallBegins(t) == pc[t] = "idle" /\ pc'[t] = "record_pywhyllm_pair"

\* Thread t runs statement i of the block in this step.
PairCallRuns(t, i) ==
    /\ pc[t] = "record_pywhyllm_pair"
    /\ args[t].i = i
    /\ pc'[t] = "idle" \/ args'[t].i = i + 1

Categories == {"pairs_a", "pairs_b", "pairs_c", "pairs_parse_fail", "pairs_exception"}

\* The category the claim gives a call: a non-empty error first, then the answer.
CategoryByPriority(error, answer) ==
    IF error # Absent /\ error # 0 THEN "pairs_exception"
    ELSE IF answer \in {"A", "B", "C"}
    THEN CASE answer = "A" -> "pairs_a" [] answer = "B" -> "pairs_b" [] answer = "C" -> "pairs_c"
    ELSE "pairs_parse_fail"

\* C36: a call of record_pywhyllm_pair adds 1 to total_pairs, in its first statement,
\* and 1 to exactly one of the five category counters, in its third: pairs_exception
\* when the error is non-empty, whatever the answer, else pairs_a, pairs_b or pairs_c
\* for the answer "A", "B" or "C", else pairs_parse_fail. The call holds the lock to
\* its last statement, so it never waits or stops, and no step of it changes anything
\* of the recorder outside self.pywhyllm.
PairCountsOneCategory ==
    /\ [](\A t \in Threads : pc[t] = "record_pywhyllm_pair" => lock = t /\ args[t].i \in 2 .. 5)
    /\ [][\A t \in Threads :
            /\ PairCallBegins(t) =>
                 /\ pywhyllm'.total_pairs = pywhyllm.total_pairs + 1
                 /\ \A c \in Categories : pywhyllm'[c] = pywhyllm[c]
            /\ \A i \in 2 .. 5 :
                 PairCallRuns(t, i) =>
                     /\ pywhyllm'.total_pairs = pywhyllm.total_pairs
                     /\ \A c \in Categories :
                          pywhyllm'[c] =
                              IF i = 3 /\ c = CategoryByPriority(args[t].error, args[t].answer)
                              THEN pywhyllm[c] + 1
                              ELSE pywhyllm[c]
            /\ (PairCallBegins(t) \/ \E i \in 2 .. 5 : PairCallRuns(t, i)) =>
                 /\ llm' = llm
                 /\ verification' = verification
                 /\ edge_dropout' = edge_dropout
                 /\ events' = events
                 /\ stage_durations' = stage_durations
                 /\ var_id_resolve_misses' = var_id_resolve_misses]_vars

\* A call with the answer "A" and an error, and a call with the answer "B" and the
\* empty error text, have returned: one exception, one B, no A.
ErrorBeatsAnswer ==
    /\ AllIdle
    /\ made["record_pywhyllm_pair"] = 2
    /\ \E k \in 1 .. 2 : /\ pywhyllm.raw_outputs[k].answer_parsed = "A"
                         /\ pywhyllm.raw_outputs[k].error = 4
    /\ \E k \in 1 .. 2 : /\ pywhyllm.raw_outputs[k].answer_parsed = "B"
                         /\ pywhyllm.raw_outputs[k].error = 0
    /\ pywhyllm.pairs_exception = 1
    /\ pywhyllm.pairs_b = 1
    /\ pywhyllm.pairs_a = 0

\* A reset() step assigns self.pywhyllm a new counter.
ResetsPairs == \E t \in Threads : pc[t] = "reset" /\ args[t].i = 7

\* C37: pairs_normalized counts the record_pywhyllm_pair calls with was_normalized
\* true since the last reset(): a call adds 1 to it exactly when was_normalized is
\* true, whatever its category, a call with was_normalized false leaves it alone,
\* nothing else changes it but reset(), which zeroes it together with total_pairs;
\* and 0 <= pairs_normalized <= total_pairs in every state.
NormalizedCountsFlaggedCalls ==
    /\ [](0 <= pywhyllm.pairs_normalized /\ pywhyllm.pairs_normalized <= pywhyllm.total_pairs)
    /\ [][\A t \in Threads :
            PairCallRuns(t, 4) =>
                pywhyllm'.pairs_normalized =
                    pywhyllm.pairs_normalized + (IF args[t].was_normalized THEN 1 ELSE 0)]_vars
    /\ [][(\A t \in Threads : ~ PairCallRuns(t, 4)) =>
            IF ResetsPairs
            THEN pywhyllm'.pairs_normalized = 0 /\ pywhyllm'.total_pairs = 0
            ELSE pywhyllm'.pairs_normalized = pywhyllm.pairs_normalized]_vars

\* After a reset(), a call with the answer "a" and was_normalized true and a call
\* with the answer "A" and was_normalized false have returned: one parse failure,
\* one A, and one normalized answer.
NormalizedParseFailureCounted ==
    /\ AllIdle
    /\ made["reset"] = 1
    /\ pywhyllm.total_pairs = 2
    /\ pywhyllm.pairs_parse_fail = 1
    /\ pywhyllm.pairs_a = 1
    /\ pywhyllm.pairs_normalized = 1

(* ---- LLM calls (SpecLlm) ---- *)

\* Thread t runs statement i of record_llm_call's block in this step.
LlmCallRuns(t, i) ==
    /\ pc[t] = "record_llm_call"
    /\ args[t].i = i
    /\ pc'[t] = "idle" \/ args'[t].i = i + 1

\* A reset() step assigns self.llm a new counter.
ResetsLlm == \E t \in Threads : pc[t] = "reset" /\ args[t].i = 6

\* C38: whenever no record_llm_call and no record_llm_error is in progress,
\* llm.total_calls is the sum of calls_by_model and the number of latency samples,
\* and total_quota_errors <= total_errors; every call adds its prompt_chars // 4 to
\* total_prompt_tokens_est and no step but reset()'s lowers the estimate, so that it
\* is at least the sum of prompt_chars // 4 over the calls recorded since the reset.
LlmCountersAgree ==
    /\ []((NoneAt("record_llm_call") /\ NoneAt("record_llm_error")) =>
            /\ llm.total_calls = SumFun(llm.calls_by_model)
            /\ llm.total_calls = Len(llm.latency_samples_ms)
            /\ llm.total_quota_errors <= llm.total_errors)
    /\ [][\A t \in Threads :
            LlmCallRuns(t, 4) =>
                llm'.total_prompt_tokens_est
                    = llm.total_prompt_tokens_est + (args[t].prompt_chars \div 4)]_vars
    /\ [][ResetsLlm \/ llm'.total_prompt_tokens_est >= llm.total_prompt_tokens_est]_vars

\* Two calls for two models, one with a token count of the API above the estimate,
\* and a quota error have been recorded: the estimate is above a quarter of the
\* characters counted.
ApiCountRaisedEstimate ==
    /\ AllIdle
    /\ llm.total_calls = 2
    /\ Cardinality(DOMAIN llm.calls_by_model) = 2
    /\ llm.total_errors = 1
    /\ llm.total_quota_errors = 1
    /\ llm.total_prompt_tokens_est > llm.total_prompt_chars \div 4

(* ---- rejection reasons (SpecLongVerification) ---- *)

Rejections == verification.rejection_reasons

\* C39: whenever no record_verification_final call is in progress rejection_reasons
\* has rejected_count entries; every entry has a non-empty reason, the one passed or
\* "unknown" when none or the empty text was passed; a call with grounded = true adds
\* no entry and counts no rejection, whatever reason it is given; and the dict of
\* summary() has the first 50 entries only, with "rejected" the whole count.
RejectionReasonsMatchCount ==
    /\ [](NoneAt("record_verification_final") => Len(Rejections) = verification.rejected_count)
    /\ [](\A k \in 1 .. Len(Rejections) : Rejections[k].reason \notin {"", None})
    /\ [][\A t \in Threads :
            (pc[t] = "record_verification_final" /\ pc'[t] = "idle") =>
                /\ Len(Rejections') = Len(Rejections) + 1
                /\ SubSeq(Rejections', 1, Len(Rejections)) = Rejections
                /\ Rejections'[Len(Rejections')].reason =
                       IF args[t].rejection_reason \in {"", None}
                       THEN "unknown"
                       ELSE args[t].rejection_reason]_vars
    /\ [][verification'.grounded_count # verification.grounded_count =>
            /\ Rejections' = Rejections
            /\ verification'.rejected_count = verification.rejected_count]_vars
    /\ [](last_summary # NoSummary =>
            /\ last_summary.verification.rejection_reasons
                  = SubSeq(Rejections, 1, Min(Len(Rejections), 50))
            /\ last_summary.verification.rejected = verification.rejected_count)

\* 51 edges have been rejected, with no reason, the empty reason and a reason, and
\* one edge was recorded as grounded; summary() has returned 50 entries and the
\* count 51.
SummaryOfFiftyOneRejections ==
    /\ AllIdle
    /\ last_summary # NoSummary
    /\ verification.grounded_count = 1
    /\ verification.rejected_count = 51
    /\ last_summary.verification.rejected = 51
    /\ Len(last_summary.verification.rejection_reasons) = 50
    /\ Rejections[49].reason = "unknown"
    /\ Rejections[51].reason = "no_evidence"

(* ---- stage timing (SpecRuns) ---- *)

\* C40: stage_end(s), called at clock value t1 after a stage_start(s) at t0 with no
\* reset() between them, sets stage_durations[s] to t1 - t0, for t0 the clock value of
\* the most recent stage_start(s) and whatever that value is, 0 included, and leaves
\* the durations of the other stages as they are.
StageEndMeasuresElapsed ==
    [][\A t \in Threads :
         (pc[t] = "idle" /\ InStageEnd(t)' /\ args'[t].stage \in DOMAIN stage_starts) =>
             LET s == args'[t].stage
             IN  /\ DOMAIN stage_durations' = DOMAIN stage_durations \cup {s}
                 /\ stage_durations'[s] = now - stage_starts[s]
                 /\ \A o \in DOMAIN stage_durations \ {s} :
                        stage_durations'[o] = stage_durations[o]]_vars

====
